---- MODULE Spec2Model ----
(***************************************************************************)
(* Model of the work-item-intelligence-agent: the sprint store             *)
(* (StateManagementService, stateManagementService.ts), the rule-based     *)
(* classifier (ClassificationService, classificationService.ts), the data  *)
(* types they share (types.ts) and the message handler that drives them    *)
(* (index.ts).                                                             *)
(*                                                                         *)
(* A JavaScript Map is modelled as the sequence of its entries in          *)
(* insertion order.  A Date is modelled by its time value in milliseconds. *)
(* A JSON text is modelled by the value JSON.parse gives for it, as a      *)
(* tagged record, or by Unparseable when JSON.parse rejects it.  A string  *)
(* the classifier or the handler reads is a string, read character by      *)
(* character.                                                              *)
(***************************************************************************)

EXTENDS Integers, Sequences, FiniteSets, TLC

VARIABLES sprints, now, steps, last, written

\* The classifier's caller and the agent around the store.
VARIABLES input, output, env, conversation, turns

storeVars == <<sprints, now, steps, last, written>>

agentVars == <<input, output, env, conversation, turns>>

vars == <<sprints, now, steps, last, written,
          input, output, env, conversation, turns>>

-----------------------------------------------------------------------------
(* Bounds of the model *)

MaxLen == 2
MaxSteps == 2
MaxBatch == 2
MaxTurns == 2

-----------------------------------------------------------------------------
(* types.ts *)

Bug == "Bug"
Feature == "Feature"
Task == "Task"
UserStory == "User Story"
Epic == "Epic"

WorkItemType == {Bug, Feature, Task, UserStory, Epic}

Critical == 1
High == 2
Medium == 3
Low == 4

Priority == {Critical, High, Medium, Low}

\* The value a read of an absent or undefined property gives.
Undefined == "<undefined>"

\* The time value of an Invalid Date (NaN).
InvalidDate == -1

MsPerSecond == 1000

\* The clock reading when the service is constructed.
StartTime == MsPerSecond - 1

WorkItem(id, title, type, state, description) ==
    [id |-> id, title |-> title, type |-> type, state |-> state,
     description |-> description]

ClassificationResult(workItemId, suggestedTags, suggestedPriority, confidence, reasoning) ==
    [workItemId |-> workItemId, suggestedTags |-> suggestedTags,
     suggestedPriority |-> suggestedPriority, confidence |-> confidence,
     reasoning |-> reasoning]

SprintState(sprintName, workItems, lastSyncTime, classifications) ==
    [sprintName |-> sprintName, workItems |-> workItems,
     lastSyncTime |-> lastSyncTime, classifications |-> classifications]

-----------------------------------------------------------------------------
(* Map<K, V>: the sequence of entries [k, v] in insertion order *)

MapHas(m, k) == \E i \in 1..Len(m) : m[i].k = k

MapIndex(m, k) == CHOOSE i \in 1..Len(m) : m[i].k = k

MapGet(m, k) == m[MapIndex(m, k)].v

\* Map.prototype.set: a new key is appended, a present key keeps its position
\* and gets the new value.
MapSet(m, k, v) ==
    IF MapHas(m, k)
    THEN [m EXCEPT ![MapIndex(m, k)] = [k |-> k, v |-> v]]
    ELSE Append(m, [k |-> k, v |-> v])

MapKeys(m) == [i \in 1..Len(m) |-> m[i].k]

MapValues(m) == [i \in 1..Len(m) |-> m[i].v]

MapKeySet(m) == {m[i].k : i \in 1..Len(m)}

-----------------------------------------------------------------------------
(* StateManagementService: what each method computes.  m is the value of   *)
(* this.sprints, t the value new Date() gives during the call.             *)

\* A plausible slip: a new sprint is registered in front of the known ones.
GetOrCreateInFront(m, sprintName, t) ==
    IF MapHas(m, sprintName)
    THEN m
    ELSE <<[k |-> sprintName, v |-> SprintState(sprintName, <<>>, t, <<>>)]>> \o m

\* A plausible slip: the state is built and registered on every call.
GetOrCreateResetting(m, sprintName, t) ==
    MapSet(m, sprintName, SprintState(sprintName, <<>>, t, <<>>))

\* getOrCreateSprintState: this.sprints after the call.
GetOrCreate(m, sprintName, t) ==
    IF MapHas(m, sprintName)
    THEN m
    ELSE MapSet(m, sprintName, SprintState(sprintName, <<>>, t, <<>>))

\* A plausible slip: a work item whose id is already stored is skipped.
RECURSIVE SetWorkItemsKeepFirst(_, _)
SetWorkItemsKeepFirst(wmap, workItems) ==
    IF workItems = <<>>
    THEN wmap
    ELSE SetWorkItemsKeepFirst(
             IF MapHas(wmap, Head(workItems).id)
             THEN wmap
             ELSE MapSet(wmap, Head(workItems).id, Head(workItems)),
             Tail(workItems))

\* workItems.forEach(wi => state.workItems.set(wi.id, wi))
RECURSIVE SetWorkItems(_, _)
SetWorkItems(wmap, workItems) ==
    IF workItems = <<>>
    THEN wmap
    ELSE SetWorkItems(MapSet(wmap, Head(workItems).id, Head(workItems)),
                      Tail(workItems))

\* classifications.forEach(c => state.classifications.set(c.workItemId, c))
RECURSIVE SetClassifications(_, _)
SetClassifications(cmap, classifications) ==
    IF classifications = <<>>
    THEN cmap
    ELSE SetClassifications(
             MapSet(cmap, Head(classifications).workItemId, Head(classifications)),
             Tail(classifications))

\* A plausible slip: the sync time is only touched when something was written.
UpdateWorkItemsSkipEmpty(m, sprintName, workItems, t) ==
    LET m1 == GetOrCreate(m, sprintName, t)
        state == MapGet(m1, sprintName)
    IN  IF workItems = <<>>
        THEN m1
        ELSE MapSet(m1, sprintName,
                    [state EXCEPT !.workItems = SetWorkItems(@, workItems),
                                  !.lastSyncTime = t])

\* A plausible slip: the work items of a sync replace the stored ones.
UpdateWorkItemsReplacing(m, sprintName, workItems, t) ==
    LET m1 == GetOrCreate(m, sprintName, t)
        state == MapGet(m1, sprintName)
    IN  MapSet(m1, sprintName,
               [state EXCEPT !.workItems = SetWorkItems(<<>>, workItems),
                             !.lastSyncTime = t])

\* updateWorkItems: this.sprints after the call.
UpdateWorkItems(m, sprintName, workItems, t) ==
    LET m1 == GetOrCreate(m, sprintName, t)
        state == MapGet(m1, sprintName)
    IN  MapSet(m1, sprintName,
               [state EXCEPT !.workItems = SetWorkItems(@, workItems),
                             !.lastSyncTime = t])

\* A plausible slip: the sprints share one Map of classifications.
StoreClassificationsInAll(m, sprintName, classifications, t) ==
    LET m1 == GetOrCreate(m, sprintName, t)
    IN  [i \in 1..Len(m1) |->
             [m1[i] EXCEPT !.v.classifications =
                               SetClassifications(@, classifications)]]

\* A plausible slip: storing classifications counts as a sync.
StoreClassificationsTouching(m, sprintName, classifications, t) ==
    LET m1 == GetOrCreate(m, sprintName, t)
        state == MapGet(m1, sprintName)
    IN  MapSet(m1, sprintName,
               [state EXCEPT !.classifications = SetClassifications(@, classifications),
                             !.lastSyncTime = t])

\* A plausible slip: classifications of a sprint never synced are dropped.
StoreClassificationsKnownOnly(m, sprintName, classifications, t) ==
    IF ~MapHas(m, sprintName)
    THEN m
    ELSE LET state == MapGet(m, sprintName)
         IN  MapSet(m, sprintName,
                    [state EXCEPT !.classifications =
                                      SetClassifications(@, classifications)])

\* storeClassifications: this.sprints after the call.
StoreClassifications(m, sprintName, classifications, t) ==
    LET m1 == GetOrCreate(m, sprintName, t)
        state == MapGet(m1, sprintName)
    IN  MapSet(m1, sprintName,
               [state EXCEPT !.classifications = SetClassifications(@, classifications)])

\* getWorkItems: the returned array.
GetWorkItems(m, sprintName) ==
    IF ~MapHas(m, sprintName)
    THEN <<>>
    ELSE MapValues(MapGet(m, sprintName).workItems)

\* getClassifications: the returned array.
GetClassifications(m, sprintName) ==
    IF ~MapHas(m, sprintName)
    THEN <<>>
    ELSE MapValues(MapGet(m, sprintName).classifications)

\* getAllSprints: the returned array.
GetAllSprints(m) == MapKeys(m)

\* classifications.filter(c => c.suggestedPriority === p).length
CountPriority(classifications, p) ==
    Cardinality({i \in 1..Len(classifications) :
                     classifications[i].suggestedPriority = p})

\* The null getSprintStats returns for a sprint it does not know.
Null == [absent |-> TRUE]

\* A plausible slip: the medium bucket also takes everything below medium.
GetSprintStatsWideMedium(m, sprintName) ==
    IF ~MapHas(m, sprintName)
    THEN Null
    ELSE LET state == MapGet(m, sprintName)
             classifications == MapValues(state.classifications)
         IN  [sprintName |-> sprintName,
              totalWorkItems |-> Len(state.workItems),
              totalClassifications |-> Len(state.classifications),
              lastSyncTime |-> state.lastSyncTime,
              priorityBreakdown |->
                  [critical |-> CountPriority(classifications, Critical),
                   high |-> CountPriority(classifications, High),
                   medium |-> CountPriority(classifications, Medium)
                                  + CountPriority(classifications, Low),
                   low |-> CountPriority(classifications, Low)]]

\* getSprintStats: the returned object, or Null.
GetSprintStats(m, sprintName) ==
    IF ~MapHas(m, sprintName)
    THEN Null
    ELSE LET state == MapGet(m, sprintName)
             classifications == MapValues(state.classifications)
         IN  [sprintName |-> sprintName,
              totalWorkItems |-> Len(state.workItems),
              totalClassifications |-> Len(state.classifications),
              lastSyncTime |-> state.lastSyncTime,
              priorityBreakdown |->
                  [critical |-> CountPriority(classifications, Critical),
                   high |-> CountPriority(classifications, High),
                   medium |-> CountPriority(classifications, Medium),
                   low |-> CountPriority(classifications, Low)]]

-----------------------------------------------------------------------------
(* JSON.  A parsed JSON value is a record tagged by t: "null", "num", "str", *)
(* "arr" or "obj"; the string Date.prototype.toJSON gives carries the       *)
(* seconds and milliseconds it spells.  JUndef is the undefined a property  *)
(* read gives when the property is missing.                                 *)

JUndef == [t |-> "undef"]
JNull == [t |-> "null"]
JNum(n) == [t |-> "num", n |-> n]
JStr(str) == [t |-> "str", s |-> str]
JArr(a) == [t |-> "arr", a |-> a]
JObj(o) == [t |-> "obj", o |-> o]

\* A text JSON.parse rejects.
Unparseable == [t |-> "unparseable"]

\* JSON.stringify leaves out every property whose value is undefined.
DropUndefined(o) == [key \in {key \in DOMAIN o : o[key] # JUndef} |-> o[key]]

\* JSON.stringify of a string-valued property that may be undefined.
OptStr(str) == IF str = Undefined THEN JUndef ELSE JStr(str)

\* A plausible slip: the timestamp is written with whole seconds only.
DateToJSONSeconds(d) ==
    IF d = InvalidDate
    THEN JNull
    ELSE [t |-> "str", sec |-> d \div MsPerSecond, ms |-> 0]

\* Date.prototype.toJSON: the ISO-8601 text, or null for an Invalid Date.
DateToJSON(d) ==
    IF d = InvalidDate
    THEN JNull
    ELSE [t |-> "str", sec |-> d \div MsPerSecond, ms |-> d % MsPerSecond]

\* JSON.stringify of a WorkItem.
WorkItemToJSON(wi) ==
    JObj(DropUndefined([id |-> JNum(wi.id),
                        title |-> OptStr(wi.title),
                        type |-> OptStr(wi.type),
                        state |-> OptStr(wi.state),
                        description |-> OptStr(wi.description)]))

\* JSON.stringify of a ClassificationResult.
ClassificationToJSON(c) ==
    JObj([workItemId |-> JNum(c.workItemId),
          suggestedTags |-> JArr([i \in 1..Len(c.suggestedTags) |->
                                      JStr(c.suggestedTags[i])]),
          suggestedPriority |-> JNum(c.suggestedPriority),
          confidence |-> JNum(c.confidence),
          reasoning |-> JStr(c.reasoning)])

\* JSON.stringify of one element of data.sprints.
SprintToJSON(name, state) ==
    JObj(DropUndefined(
        [name |-> OptStr(name),
         workItems |->
             JArr([i \in 1..Len(state.workItems) |->
                       JArr(<<JNum(state.workItems[i].k),
                              WorkItemToJSON(state.workItems[i].v)>>)]),
         classifications |->
             JArr([i \in 1..Len(state.classifications) |->
                       JArr(<<JNum(state.classifications[i].k),
                              ClassificationToJSON(state.classifications[i].v)>>)]),
         lastSyncTime |-> DateToJSON(state.lastSyncTime)]))

\* exportState: the returned text.
ExportState(m) ==
    JObj([sprints |-> JArr([i \in 1..Len(m) |-> SprintToJSON(m[i].k, m[i].v)])])

\* The read j[key] of a value that is neither null nor undefined.
Prop(j, key) ==
    IF j.t = "obj" /\ key \in DOMAIN j.o THEN j.o[key] ELSE JUndef

\* The read of a string-valued property.
StrOf(j) == IF j.t = "str" /\ "s" \in DOMAIN j THEN j.s ELSE Undefined

\* The WorkItem an entry's parsed value is read as.
WorkItemFromJSON(j) ==
    WorkItem(Prop(j, "id").n, StrOf(Prop(j, "title")), StrOf(Prop(j, "type")),
             StrOf(Prop(j, "state")), StrOf(Prop(j, "description")))

\* The ClassificationResult an entry's parsed value is read as.
ClassificationFromJSON(j) ==
    LET tags == Prop(j, "suggestedTags").a
    IN  ClassificationResult(Prop(j, "workItemId").n,
                             [i \in 1..Len(tags) |-> StrOf(tags[i])],
                             Prop(j, "suggestedPriority").n,
                             Prop(j, "confidence").n,
                             StrOf(Prop(j, "reasoning")))

\* new Date(j): never throws; what is not a date text gives an Invalid Date.
NewDate(j) ==
    IF j.t = "str" /\ "sec" \in DOMAIN j THEN j.sec * MsPerSecond + j.ms
    ELSE IF j.t = "num" THEN j.n
    ELSE IF j.t = "null" THEN 0
    ELSE InvalidDate

\* new Map(j) throws a TypeError unless j is undefined, null or an iterable
\* whose elements are all objects.
NewMapThrows(j) ==
    \/ j.t \in {"num", "obj"}
    \/ j.t = "str" /\ StrOf(j) # ""
    \/ j.t = "arr" /\ \E i \in 1..Len(j.a) : j.a[i].t \notin {"arr", "obj"}

\* The i-th element of an entry read as e[i - 1].
EntryPart(e, i) == IF e.t = "arr" /\ i <= Len(e.a) THEN e.a[i] ELSE JUndef

\* The stored value of an entry, read as the type the map is declared with.
ValueFromJSON(kind, j) ==
    IF kind = "workItems" THEN WorkItemFromJSON(j) ELSE ClassificationFromJSON(j)

\* new Map(j) for a j that does not make it throw: the entries are set in
\* order.
RECURSIVE SetEntries(_, _, _)
SetEntries(map, entries, kind) ==
    IF entries = <<>>
    THEN map
    ELSE SetEntries(MapSet(map, EntryPart(Head(entries), 1).n,
                           ValueFromJSON(kind, EntryPart(Head(entries), 2))),
                    Tail(entries), kind)

NewMap(j, kind) ==
    IF j.t = "arr" THEN SetEntries(<<>>, j.a, kind) ELSE <<>>

\* One call of the forEach callback of importState on the element sprint:
\* either it throws and this.sprints stays as it is, or it sets the sprint.
ImportSprintThrows(sprint) ==
    \/ sprint.t \in {"null", "undef"}
    \/ NewMapThrows(Prop(sprint, "workItems"))
    \/ NewMapThrows(Prop(sprint, "classifications"))

ImportSprint(m, sprint) ==
    LET name == StrOf(Prop(sprint, "name"))
    IN  MapSet(m, name,
               SprintState(name,
                           NewMap(Prop(sprint, "workItems"), "workItems"),
                           NewDate(Prop(sprint, "lastSyncTime")),
                           NewMap(Prop(sprint, "classifications"),
                                  "classifications")))

\* data.sprints.forEach(...): the elements are imported in order until one
\* throws; what was set before the throw stays.
RECURSIVE ImportSprints(_, _)
ImportSprints(m, elements) ==
    IF elements = <<>>
    THEN [sprints |-> m, threw |-> FALSE]
    ELSE IF ImportSprintThrows(Head(elements))
         THEN [sprints |-> m, threw |-> TRUE]
         ELSE ImportSprints(ImportSprint(m, Head(elements)), Tail(elements))

\* A plausible slip: the store is not cleared before the snapshot is read in.
ImportStateMerging(m, json) ==
    IF json = Unparseable
    THEN [sprints |-> m, threw |-> TRUE]
    ELSE IF json.t = "null" \/ Prop(json, "sprints").t # "arr"
         THEN [sprints |-> m, threw |-> TRUE]
         ELSE ImportSprints(m, Prop(json, "sprints").a)

\* A plausible slip: the store is cleared before the text is parsed.
ImportStateClearFirst(m, json) ==
    IF json = Unparseable
    THEN [sprints |-> <<>>, threw |-> TRUE]
    ELSE IF json.t = "null" \/ Prop(json, "sprints").t # "arr"
         THEN [sprints |-> <<>>, threw |-> TRUE]
         ELSE ImportSprints(<<>>, Prop(json, "sprints").a)

\* importState: this.sprints after the call and whether the call threw.
\* JSON.parse throws before the store is touched; every later throw comes
\* after this.sprints.clear().
ImportState(m, json) ==
    IF json = Unparseable
    THEN [sprints |-> m, threw |-> TRUE]
    ELSE IF json.t = "null" \/ Prop(json, "sprints").t # "arr"
         THEN [sprints |-> <<>>, threw |-> TRUE]
         ELSE ImportSprints(<<>>, Prop(json, "sprints").a)

-----------------------------------------------------------------------------
(* classificationService.ts.  Texts are strings; a confidence is kept in    *)
(* hundredths (0.6 is 60): 0.6 + n * 0.1 is, as a double, the double of the *)
(* decimal it spells for n up to 3 and at least 1 from n = 4 on, so that    *)
(* Math.min(0.95, ...) is exact in hundredths.                              *)

UpperCaseLetters == "ABCDEFGHIJKLMNOPQRSTUVWXYZ"
LowerCaseLetters == "abcdefghijklmnopqrstuvwxyz"

\* One character of String.prototype.toLowerCase.
LowerChar(c) ==
    IF \E k \in 1..Len(UpperCaseLetters) : SubSeq(UpperCaseLetters, k, k) = c
    THEN LET k == CHOOSE k \in 1..Len(UpperCaseLetters) :
                      SubSeq(UpperCaseLetters, k, k) = c
         IN  SubSeq(LowerCaseLetters, k, k)
    ELSE c

RECURSIVE ToLowerCase(_)
ToLowerCase(str) ==
    IF str = "" THEN "" ELSE LowerChar(Head(str)) \o ToLowerCase(Tail(str))

\* String.prototype.includes: keyword occurs in text as a substring.
Includes(text, keyword) ==
    \E i \in 1..(Len(text) - Len(keyword) + 1) :
        SubSeq(text, i, i + Len(keyword) - 1) = keyword

IncludesAny(text, keywords) == \E keyword \in keywords : Includes(text, keyword)

\* String.prototype.trim, for the blanks the fragments end with.
RECURSIVE Trim(_)
Trim(str) ==
    IF str = "" THEN ""
    ELSE IF Head(str) = " " THEN Trim(Tail(str))
    ELSE IF SubSeq(str, Len(str), Len(str)) = " "
         THEN Trim(SubSeq(str, 1, Len(str) - 1))
    ELSE str

\* The text the rules read: `${title} ${description}`, both in lower case,
\* with '' for a description that is absent or empty.
TextOf(workItem) ==
    LET title == ToLowerCase(workItem.title)
        description == ToLowerCase(IF workItem.description \in {Undefined, ""}
                                   THEN ""
                                   ELSE workItem.description)
    IN  title \o " " \o description

CriticalKeywords == {"critical", "production down", "security", "data loss"}
HighKeywords == {"urgent", "important", "customer impact", "high priority"}
LowKeywords == {"nice to have", "low priority", "enhancement", "cosmetic"}

FallbackReasoning == "Standard classification applied."

\* What a rule adds: the tags it pushes and the fragment it appends.
Adds(tags, fragment) == [tags |-> tags, reasoning |-> fragment]

\* A plausible slip: the rule for a Bug that is a blocker is left out.
IsCriticalKeywordsOnly(text, type) == IncludesAny(text, CriticalKeywords)

\* The condition of the Critical tier.
IsCritical(text, type) ==
    \/ IncludesAny(text, CriticalKeywords)
    \/ (type = Bug /\ Includes(text, "blocker"))

\* A plausible slip: the Low tier is tested before the High tier.
PriorityTierLowFirst(text, type) ==
    IF IsCritical(text, type)
    THEN [suggestedPriority |-> Critical] @@
         Adds(<<"Critical">>, "Critical priority due to severity keywords. ")
    ELSE IF IncludesAny(text, LowKeywords)
    THEN [suggestedPriority |-> Low] @@
         Adds(<<>>, "Low priority - non-critical enhancement. ")
    ELSE IF IncludesAny(text, HighKeywords)
    THEN [suggestedPriority |-> High] @@
         Adds(<<"HighPriority">>, "High priority due to urgency indicators. ")
    ELSE [suggestedPriority |-> Medium] @@ Adds(<<>>, "")

\* A plausible slip: the High tier pushes the tag of the Critical tier.
PriorityTierCopiedTag(text, type) ==
    IF IsCritical(text, type)
    THEN [suggestedPriority |-> Critical] @@
         Adds(<<"Critical">>, "Critical priority due to severity keywords. ")
    ELSE IF IncludesAny(text, HighKeywords)
    THEN [suggestedPriority |-> High] @@
         Adds(<<"Critical">>, "High priority due to urgency indicators. ")
    ELSE IF IncludesAny(text, LowKeywords)
    THEN [suggestedPriority |-> Low] @@
         Adds(<<>>, "Low priority - non-critical enhancement. ")
    ELSE [suggestedPriority |-> Medium] @@ Adds(<<>>, "")

\* The priority tier: the if / else if chain, Medium when no branch is taken.
PriorityTier(text, type) ==
    IF IsCritical(text, type)
    THEN [suggestedPriority |-> Critical] @@
         Adds(<<"Critical">>, "Critical priority due to severity keywords. ")
    ELSE IF IncludesAny(text, HighKeywords)
    THEN [suggestedPriority |-> High] @@
         Adds(<<"HighPriority">>, "High priority due to urgency indicators. ")
    ELSE IF IncludesAny(text, LowKeywords)
    THEN [suggestedPriority |-> Low] @@
         Adds(<<>>, "Low priority - non-critical enhancement. ")
    ELSE [suggestedPriority |-> Medium] @@ Adds(<<>>, "")

Area(tag, keywords, fragment) ==
    [tag |-> tag, keywords |-> keywords, fragment |-> fragment]

\* A plausible slip: the Database rule only knows the whole words.
TechnicalAreasWholeWords ==
    << Area("UI", {"ui", "frontend", "interface"}, "UI component identified. "),
       Area("Backend", {"backend", "api", "server"}, "Backend component identified. "),
       Area("Database", {"database", "sql"}, "Database component identified. "),
       Area("Performance", {"performance", "slow", "optimization"},
            "Performance concern identified. "),
       Area("Security", {"security", "authentication", "authorization"},
            "Security aspect identified. "),
       Area("Testing", {"test", "testing", "qa"}, "Testing related. "),
       Area("Documentation", {"documentation", "docs", "readme"},
            "Documentation work. ") >>

\* The technical-area rules, in the order the code tests them.
TechnicalAreas ==
    << Area("UI", {"ui", "frontend", "interface"}, "UI component identified. "),
       Area("Backend", {"backend", "api", "server"}, "Backend component identified. "),
       Area("Database", {"database", "sql", "data"}, "Database component identified. "),
       Area("Performance", {"performance", "slow", "optimization"},
            "Performance concern identified. "),
       Area("Security", {"security", "authentication", "authorization"},
            "Security aspect identified. "),
       Area("Testing", {"test", "testing", "qa"}, "Testing related. "),
       Area("Documentation", {"documentation", "docs", "readme"},
            "Documentation work. ") >>

\* What the technical-area rules from the i-th on add for text.
RECURSIVE AreaAdds(_, _)
AreaAdds(text, i) ==
    IF i > Len(TechnicalAreas) THEN Adds(<<>>, "")
    ELSE LET rest == AreaAdds(text, i + 1)
             area == TechnicalAreas[i]
         IN  IF IncludesAny(text, area.keywords)
             THEN Adds(<<area.tag>> \o rest.tags, area.fragment \o rest.reasoning)
             ELSE rest

\* The tag of the work item type: Task and User Story have none.
TypeAdds(type) ==
    IF type = Bug THEN Adds(<<"Bug">>, "")
    ELSE IF type = Feature THEN Adds(<<"Feature">>, "")
    ELSE IF type = Epic THEN Adds(<<"Epic">>, "")
    ELSE Adds(<<>>, "")

\* A plausible slip: the state is searched for "new" instead of compared.
StateAddsSubstring(state) ==
    IF Includes(ToLowerCase(state), "new")
    THEN Adds(<<"NeedsReview">>, "New work item needs review. ")
    ELSE Adds(<<>>, "")

\* The tag of the state.
StateAdds(state) ==
    IF ToLowerCase(state) = "new"
    THEN Adds(<<"NeedsReview">>, "New work item needs review. ")
    ELSE Adds(<<>>, "")

Min(a, b) == IF a < b THEN a ELSE b

\* A plausible slip: the cap is left out.
ConfidenceUncapped(suggestedTags) == 60 + Len(suggestedTags) * 10

\* Math.min(0.95, 0.6 + suggestedTags.length * 0.1), in hundredths.
Confidence(suggestedTags) == Min(95, 60 + Len(suggestedTags) * 10)

\* A plausible slip: a priority the work item already carries is kept.
ClassifyWorkItemOwnPriority(workItem) ==
    LET text == TextOf(workItem)
        tier == PriorityTier(text, workItem.type)
        areas == AreaAdds(text, 1)
        type == TypeAdds(workItem.type)
        state == StateAdds(workItem.state)
        suggestedTags == tier.tags \o areas.tags \o type.tags \o state.tags
        reasoning == tier.reasoning \o areas.reasoning \o type.reasoning
                         \o state.reasoning
    IN  ClassificationResult(
            workItem.id,
            suggestedTags,
            IF "priority" \in DOMAIN workItem
            THEN workItem.priority
            ELSE tier.suggestedPriority,
            Confidence(suggestedTags),
            IF Trim(reasoning) = "" THEN FallbackReasoning ELSE Trim(reasoning))

\* A plausible slip: the type and state tags are pushed before the
\* technical areas.
ClassifyWorkItemTypeFirst(workItem) ==
    LET text == TextOf(workItem)
        tier == PriorityTier(text, workItem.type)
        areas == AreaAdds(text, 1)
        type == TypeAdds(workItem.type)
        state == StateAdds(workItem.state)
        suggestedTags == tier.tags \o type.tags \o state.tags \o areas.tags
        reasoning == tier.reasoning \o type.reasoning \o state.reasoning
                         \o areas.reasoning
    IN  ClassificationResult(
            workItem.id,
            suggestedTags,
            tier.suggestedPriority,
            Confidence(suggestedTags),
            IF Trim(reasoning) = "" THEN FallbackReasoning ELSE Trim(reasoning))

\* A plausible slip: the fallback is used when no tag was pushed.
ClassifyWorkItemFallbackWithoutTags(workItem) ==
    LET text == TextOf(workItem)
        tier == PriorityTier(text, workItem.type)
        areas == AreaAdds(text, 1)
        type == TypeAdds(workItem.type)
        state == StateAdds(workItem.state)
        suggestedTags == tier.tags \o areas.tags \o type.tags \o state.tags
        reasoning == tier.reasoning \o areas.reasoning \o type.reasoning
                         \o state.reasoning
    IN  ClassificationResult(
            workItem.id,
            suggestedTags,
            tier.suggestedPriority,
            Confidence(suggestedTags),
            IF suggestedTags = <<>> THEN FallbackReasoning ELSE Trim(reasoning))

\* classifyWorkItem: the result it resolves to.
ClassifyWorkItem(workItem) ==
    LET text == TextOf(workItem)
        tier == PriorityTier(text, workItem.type)
        areas == AreaAdds(text, 1)
        type == TypeAdds(workItem.type)
        state == StateAdds(workItem.state)
        suggestedTags == tier.tags \o areas.tags \o type.tags \o state.tags
        reasoning == tier.reasoning \o areas.reasoning \o type.reasoning
                         \o state.reasoning
    IN  ClassificationResult(
            workItem.id,
            suggestedTags,
            tier.suggestedPriority,
            Confidence(suggestedTags),
            IF Trim(reasoning) = "" THEN FallbackReasoning ELSE Trim(reasoning))

\* A plausible slip: each result is put in front of the earlier ones.
RECURSIVE ClassifyWorkItemsNewestFirst(_)
ClassifyWorkItemsNewestFirst(workItems) ==
    IF workItems = <<>> THEN <<>>
    ELSE ClassifyWorkItemsNewestFirst(Tail(workItems))
             \o <<ClassifyWorkItem(Head(workItems))>>

\* classifyWorkItems: the results pushed one by one, in the order of the loop.
RECURSIVE ClassifyWorkItems(_)
ClassifyWorkItems(workItems) ==
    IF workItems = <<>> THEN <<>>
    ELSE <<ClassifyWorkItem(Head(workItems))>>
             \o ClassifyWorkItems(Tail(workItems))

-----------------------------------------------------------------------------
(* The inputs the callers pass in *)

SprintNames == {"S1", "S2"}

Ids == {1, 2}

\* Two copies of a work item that differ in every field but the id; the
\* first has no description.
WorkItemA(id) == WorkItem(id, "a", Bug, "New", Undefined)
WorkItemB(id) == WorkItem(id, "b", Task, "Active", "d")

WorkItems == {WorkItemA(id) : id \in Ids} \cup {WorkItemB(1)}

\* Results as the classifier gives them, confidence in hundredths.
Result(id, priority) ==
    CASE priority = Critical ->
             ClassificationResult(id, <<"Critical", "Bug", "NeedsReview">>, Critical, 90,
                                  "Critical priority due to severity keywords. New work item needs review.")
      [] priority = High ->
             ClassificationResult(id, <<"HighPriority">>, High, 70,
                                  "High priority due to urgency indicators.")
      [] priority = Medium ->
             ClassificationResult(id, <<>>, Medium, 60,
                                  "Standard classification applied.")
      [] priority = Low ->
             ClassificationResult(id, <<"UI", "Feature">>, Low, 80,
                                  "Low priority - non-critical enhancement. UI component identified.")

SamplePriority(id) ==
    CASE id % 3 = 1 -> Critical
      [] id % 3 = 2 -> Low
      [] OTHER -> High

Results == {Result(id, SamplePriority(id)) : id \in Ids} \cup {Result(1, Medium)}

SeqsUpTo(S, n) == UNION {[1..len -> S] : len \in 0..n}

WorkItemLists == SeqsUpTo(WorkItems, MaxLen)

ResultLists == SeqsUpTo(Results, MaxLen)

\* A store another run of the service could have exported.
SavedStore ==
    StoreClassifications(
        UpdateWorkItems(<<>>, "S1", <<WorkItemB(1)>>, StartTime),
        "S1", <<Result(1, Medium)>>, StartTime)

SavedSprint == Prop(ExportState(SavedStore), "sprints").a[1]

\* The object o without the property key.
Without(o, key) == [other \in DOMAIN o \ {key} |-> o[other]]

\* A snapshot with the single sprint entry o.
SnapshotOf(o) == JObj([sprints |-> JArr(<<JObj(o)>>)])

SprintKeys == {"name", "workItems", "classifications", "lastSyncTime"}

\* Snapshots with a structural defect: a text that does not parse, documents
\* without a sprints list, sprint entries that lack a property or have it in
\* the wrong shape (the last one after an entry that is in order).
MalformedSnapshots ==
    {Unparseable, JNull, JObj(<<>>), JObj([sprints |-> JNum(5)])}
        \cup {SnapshotOf(Without(SavedSprint.o, key)) : key \in SprintKeys}
        \cup {SnapshotOf([SavedSprint.o EXCEPT !.lastSyncTime = JStr("garbage")]),
              SnapshotOf([SavedSprint.o EXCEPT !.workItems = JNum(5)]),
              JObj([sprints |-> JArr(<<SavedSprint, JNull>>)])}

\* Whether a text is a snapshot in the shape exportState writes.
IsDateText(j) == j.t = "str" /\ "sec" \in DOMAIN j

IsEntries(j) ==
    /\ j.t = "arr"
    /\ \A i \in 1..Len(j.a) :
           /\ j.a[i].t = "arr"
           /\ Len(j.a[i].a) = 2
           /\ j.a[i].a[1].t = "num"
           /\ j.a[i].a[2].t = "obj"

IsSprintEntry(j) ==
    /\ j.t = "obj"
    /\ Prop(j, "name").t = "str"
    /\ IsEntries(Prop(j, "workItems"))
    /\ IsEntries(Prop(j, "classifications"))
    /\ IsDateText(Prop(j, "lastSyncTime"))

WellFormed(json) ==
    /\ json.t = "obj"
    /\ Prop(json, "sprints").t = "arr"
    /\ \A i \in 1..Len(Prop(json, "sprints").a) :
           IsSprintEntry(Prop(json, "sprints").a[i])

\* The work items handed to the classifier: the titles and descriptions name
\* keywords of every tier and area, alone and together, in either case, as
\* parts of longer words ("build", "metadata") and across the blank that
\* joins title and description ("production" + "down").
ClassifierTitles ==
    {"Fix production down issue", "Add nice to have UI enhancement",
     "blocker urgent", "Blocker cosmetic", "SECURITY data loss",
     "urgent cosmetic build", "Update readme", "Refactor", "production",
     "slow sql api test", "critical customer impact", "Blocker"}

ClassifierDescriptions ==
    {Undefined, "", "down", "Important blocker",
     "qa docs authentication interface", "metadata"}

ClassifierStates == {"New", "NEW", "Active", "New Request"}

ClassifierItems ==
    {WorkItem(1, title, type, state, description) :
         title \in ClassifierTitles, type \in WorkItemType,
         state \in ClassifierStates, description \in ClassifierDescriptions}

\* workItem under another id, with the optional fields the rules do not
\* read filled in.
Carrying(workItem, id) ==
    [workItem EXCEPT !.id = id] @@
    [assignedTo |-> "Ann", tags |-> <<"Critical", "cosmetic">>,
     priority |-> Low, sprint |-> "S1",
     url |-> "https://dev.azure.com/org/project/_workitems/edit/1"]

\* The work items a batch is made of.
BatchItems ==
    {WorkItem(1, "Fix production down issue", Bug, "New", ""),
     WorkItem(2, "Add nice to have UI enhancement", Feature, "Active", Undefined),
     WorkItem(1, "urgent cosmetic build", Task, "New", "metadata"),
     Carrying(WorkItem(3, "Refactor", Epic, "Active", Undefined), 3)}

Batches == SeqsUpTo(BatchItems, MaxBatch)

\* What a caller asks of the classifier, and what it gets back.
Request(op, arg) == [op |-> op, arg |-> arg]

Returned(value) == [value |-> value]

ClassifierRequests ==
    {Request("classifyWorkItem", workItem) : workItem \in ClassifierItems}
        \cup {Request("classifyWorkItem", Carrying(workItem, 2)) :
                  workItem \in BatchItems}
        \cup {Request("classifyWorkItems", workItems) : workItems \in Batches}

-----------------------------------------------------------------------------
(* The state machine.  sprints is this.sprints; now is the clock; steps     *)
(* counts the calls made; last records the latest call: its sprint name,    *)
(* what the list passed in did to the stored ids or the text passed in,     *)
(* what it returned and whether it threw; written records, per sprint       *)
(* name, the latest work item and the latest result that updateWorkItems    *)
(* and storeClassifications were handed for each id.                        *)

None == <<>>

\* The id a work item or a classification result is stored under.
KeyOf(e) == IF "workItemId" \in DOMAIN e THEN e.workItemId ELSE e.id

Call(op, sprintName, wrote, json, ret, threw) ==
    [op |-> op, sprintName |-> sprintName, wrote |-> wrote, json |-> json,
     ret |-> ret, threw |-> threw]

\* The Map a sprint holds under field, empty for a sprint not known.
StoredMap(m, sprintName, field) ==
    IF MapHas(m, sprintName) THEN MapGet(m, sprintName)[field] ELSE <<>>

\* What a list handed to updateWorkItems or storeClassifications does to the
\* ids stored in map: nothing (it is empty), it replaces the value of an id
\* (one that is stored, or one that the list names twice), or it only adds.
Wrote(map, list) ==
    IF list = <<>> THEN "nothing"
    ELSE IF \/ \E i \in 1..Len(list) : MapHas(map, KeyOf(list[i]))
            \/ \E i, j \in 1..Len(list) : i # j /\ KeyOf(list[i]) = KeyOf(list[j])
         THEN "replaced"
         ELSE "added"

\* The elements of list that no later element with the same id replaces.
LatestOf(list) ==
    {list[i] : i \in {i \in 1..Len(list) :
                          \A j \in (i + 1)..Len(list) : KeyOf(list[j]) # KeyOf(list[i])}}

\* The history after the elements of list were handed in on top of old.
Handed(old, list) ==
    {e \in old : \A i \in 1..Len(list) : KeyOf(list[i]) # KeyOf(e)}
        \cup LatestOf(list)

SeqToSet(seq) == {seq[i] : i \in 1..Len(seq)}

\* The store after construction, before any call.
NewStore ==
    /\ sprints = <<>>
    /\ now = StartTime
    /\ steps = 0
    /\ last = Call("new", None, None, None, None, FALSE)
    /\ written = [name \in SprintNames |-> [workItems |-> {}, classifications |-> {}]]

\* process.env as index.ts reads it: which of the variables are set.
Env(azureDevOpsPat, teamsWebhookUrl, copilotStudioEndpoint, copilotStudioApiKey) ==
    [AZURE_DEVOPS_PAT |-> azureDevOpsPat,
     TEAMS_WEBHOOK_URL |-> teamsWebhookUrl,
     COPILOT_STUDIO_ENDPOINT |-> copilotStudioEndpoint,
     COPILOT_STUDIO_API_KEY |-> copilotStudioApiKey]

\* No classifier call was asked for.
NoCaller ==
    /\ input = None
    /\ output = None

\* The agent with nothing configured and no message received.
NoAgent ==
    /\ env = Env(FALSE, FALSE, FALSE, FALSE)
    /\ conversation = [count |-> 0, currentSprint |-> Undefined]
    /\ turns = <<>>

Init == NewStore /\ NoCaller /\ NoAgent

getOrCreateSprintState(sprintName) ==
    /\ steps < MaxSteps
    /\ steps' = steps + 1
    /\ sprints' = GetOrCreate(sprints, sprintName, now)
    /\ last' = Call("getOrCreateSprintState", sprintName, None, None,
                    MapGet(sprints', sprintName), FALSE)
    /\ UNCHANGED <<now, written>>
    /\ UNCHANGED agentVars

updateWorkItems(sprintName, workItems) ==
    /\ steps < MaxSteps
    /\ steps' = steps + 1
    /\ sprints' = UpdateWorkItems(sprints, sprintName, workItems, now)
    /\ last' = Call("updateWorkItems", sprintName,
                    Wrote(StoredMap(sprints, sprintName, "workItems"), workItems),
                    None, None, FALSE)
    /\ written' = [written EXCEPT ![sprintName].workItems =
                                      Handed(@, workItems)]
    /\ UNCHANGED now
    /\ UNCHANGED agentVars

storeClassifications(sprintName, classifications) ==
    /\ steps < MaxSteps
    /\ steps' = steps + 1
    /\ sprints' = StoreClassifications(sprints, sprintName, classifications, now)
    /\ last' = Call("storeClassifications", sprintName,
                    Wrote(StoredMap(sprints, sprintName, "classifications"),
                          classifications),
                    None, None, FALSE)
    /\ written' = [written EXCEPT ![sprintName].classifications =
                                      Handed(@, classifications)]
    /\ UNCHANGED now
    /\ UNCHANGED agentVars

getWorkItems(sprintName) ==
    /\ steps < MaxSteps
    /\ steps' = steps + 1
    /\ last' = Call("getWorkItems", sprintName, None, None,
                    GetWorkItems(sprints, sprintName), FALSE)
    /\ UNCHANGED <<sprints, now, written>>
    /\ UNCHANGED agentVars

getClassifications(sprintName) ==
    /\ steps < MaxSteps
    /\ steps' = steps + 1
    /\ last' = Call("getClassifications", sprintName, None, None,
                    GetClassifications(sprints, sprintName), FALSE)
    /\ UNCHANGED <<sprints, now, written>>
    /\ UNCHANGED agentVars

getAllSprints ==
    /\ steps < MaxSteps
    /\ steps' = steps + 1
    /\ last' = Call("getAllSprints", None, None, None, GetAllSprints(sprints), FALSE)
    /\ UNCHANGED <<sprints, now, written>>
    /\ UNCHANGED agentVars

\* A plausible slip: the lookup goes through getOrCreateSprintState.
getSprintStatsCreating(sprintName) ==
    /\ steps < MaxSteps
    /\ steps' = steps + 1
    /\ sprints' = GetOrCreate(sprints, sprintName, now)
    /\ last' = Call("getSprintStats", sprintName, None, None,
                    GetSprintStats(sprints', sprintName), FALSE)
    /\ UNCHANGED <<now, written>>
    /\ UNCHANGED agentVars

getSprintStats(sprintName) ==
    /\ steps < MaxSteps
    /\ steps' = steps + 1
    /\ last' = Call("getSprintStats", sprintName, None, None,
                    GetSprintStats(sprints, sprintName), FALSE)
    /\ UNCHANGED <<sprints, now, written>>
    /\ UNCHANGED agentVars

exportState ==
    /\ steps < MaxSteps
    /\ steps' = steps + 1
    /\ last' = Call("exportState", None, None, None, ExportState(sprints), FALSE)
    /\ UNCHANGED <<sprints, now, written>>
    /\ UNCHANGED agentVars

importState(json) ==
    /\ steps < MaxSteps
    /\ steps' = steps + 1
    /\ sprints' = ImportState(sprints, json).sprints
    /\ last' = Call("importState", None, None, json, None,
                    ImportState(sprints, json).threw)
    /\ UNCHANGED <<now, written>>
    /\ UNCHANGED agentVars

\* Time passes between two calls; the clock is never more milliseconds past
\* StartTime than calls were made.
Tick ==
    /\ now < StartTime + steps
    /\ now' = now + 1
    /\ last' = Call("tick", None, None, None, None, FALSE)
    /\ UNCHANGED <<sprints, steps, written>>
    /\ UNCHANGED agentVars

Next ==
    \/ \E sprintName \in SprintNames : getOrCreateSprintState(sprintName)
    \/ \E sprintName \in SprintNames, workItems \in WorkItemLists :
           updateWorkItems(sprintName, workItems)
    \/ \E sprintName \in SprintNames, classifications \in ResultLists :
           storeClassifications(sprintName, classifications)
    \/ \E sprintName \in SprintNames : getWorkItems(sprintName)
    \/ \E sprintName \in SprintNames : getClassifications(sprintName)
    \/ getAllSprints
    \/ \E sprintName \in SprintNames : getSprintStats(sprintName)
    \/ exportState
    \/ \E json \in MalformedSnapshots \cup {ExportState(SavedStore), ExportState(sprints)} :
           importState(json)
    \/ Tick

Spec == Init /\ [][Next]_vars

\* The calls of Next without importState: the store is only ever written by
\* getOrCreateSprintState, updateWorkItems and storeClassifications.
NextWrites ==
    \/ \E sprintName \in SprintNames : getOrCreateSprintState(sprintName)
    \/ \E sprintName \in SprintNames, workItems \in WorkItemLists :
           updateWorkItems(sprintName, workItems)
    \/ \E sprintName \in SprintNames, classifications \in ResultLists :
           storeClassifications(sprintName, classifications)
    \/ \E sprintName \in SprintNames : getWorkItems(sprintName)
    \/ \E sprintName \in SprintNames : getClassifications(sprintName)
    \/ getAllSprints
    \/ \E sprintName \in SprintNames : getSprintStats(sprintName)
    \/ exportState
    \/ Tick

SpecWrites == Init /\ [][NextWrites]_vars

\* The classifier called on its own: a caller hands it one work item or a
\* batch and gets the result back.
InitClassifier ==
    /\ NewStore
    /\ NoAgent
    /\ input \in ClassifierRequests
    /\ output = None

classifyWorkItem ==
    /\ input.op = "classifyWorkItem"
    /\ output = None
    /\ output' = Returned(ClassifyWorkItem(input.arg))
    /\ UNCHANGED <<storeVars, input, env, conversation, turns>>

classifyWorkItems ==
    /\ input.op = "classifyWorkItems"
    /\ output = None
    /\ output' = Returned(ClassifyWorkItems(input.arg))
    /\ UNCHANGED <<storeVars, input, env, conversation, turns>>

NextClassifier == classifyWorkItem \/ classifyWorkItems

SpecClassifier == InitClassifier /\ [][NextClassifier]_vars

-----------------------------------------------------------------------------
(* index.ts: the agent.  A turn is one run of the message handler; it is    *)
(* modelled from await to await.  env is process.env, conversation is       *)
(* state.conversation, turns the turns running or just returned, each with  *)
(* handler's locals, the place it has reached, the activities it sent and   *)
(* the lines the notification services wrote to the console.                *)

DefaultSprint == "Current Sprint"

StartsWith(str, prefix) ==
    Len(str) >= Len(prefix) /\ SubSeq(str, 1, Len(prefix)) = prefix

\* parts.length > 1 ? parts.slice(1).join(' ') : fallback, for
\* parts = text.split(' '): what follows the first blank of text, if any.
RestOf(text, fallback) ==
    IF \E i \in 1..Len(text) : SubSeq(text, i, i) = " "
    THEN LET first == CHOOSE i \in 1..Len(text) :
                          /\ SubSeq(text, i, i) = " "
                          /\ \A j \in 1..(i - 1) : SubSeq(text, j, j) # " "
         IN  SubSeq(text, first + 1, Len(text))
    ELSE fallback

\* context.activity.text?.trim().toLowerCase() || ''
CommandText(activityText) ==
    IF activityText = Undefined THEN "" ELSE ToLowerCase(Trim(activityText))

\* An activity the handler sends: which of its messages, and the values the
\* message spells.
Reply(kind, values) == [kind |-> kind, values |-> values]

Turn(text, pc, sprintName, workItems, classifications, replies) ==
    [text |-> text, pc |-> pc, sprintName |-> sprintName,
     workItems |-> workItems, classifications |-> classifications,
     replies |-> replies, log |-> <<>>]

\* The activity with the quick stats of a sync, none when the sprint is not
\* known.
QuickStats(m, sprintName) ==
    LET stats == GetSprintStats(m, sprintName)
    IN  IF stats = Null THEN <<>>
        ELSE <<Reply("quick stats", stats.priorityBreakdown)>>

\* A plausible slip: the classify command goes on without work items.
DispatchClassifyingNothing(activityText, m, current, configured) ==
    LET text == CommandText(activityText)
        own == IF current \in {Undefined, ""} THEN DefaultSprint ELSE current
    IN  IF text = "help"
        THEN Turn(text, "done", None, None, None, <<Reply("help", None)>>)
        ELSE IF StartsWith(text, "sync")
        THEN IF ~configured
             THEN Turn(text, "done", None, None, None,
                       <<Reply("not configured", None)>>)
             ELSE Turn(text, "fetch", RestOf(text, DefaultSprint), None, None,
                       <<Reply("syncing", RestOf(text, DefaultSprint))>>)
        ELSE IF text = "classify"
        THEN Turn(text, "classify", own, GetWorkItems(m, own), None,
                  <<Reply("classifying", Len(GetWorkItems(m, own)))>>)
        ELSE IF StartsWith(text, "stats")
        THEN LET sprintName == RestOf(text, own)
                 stats == GetSprintStats(m, sprintName)
             IN  IF stats = Null
                 THEN Turn(text, "done", sprintName, None, None,
                           <<Reply("no data", sprintName)>>)
                 ELSE Turn(text, "done", sprintName, None, None,
                           <<Reply("statistics", stats)>>)
        ELSE IF text = "sprints"
        THEN IF Len(GetAllSprints(m)) = 0
             THEN Turn(text, "done", None, None, None, <<Reply("no sprints", None)>>)
             ELSE Turn(text, "done", None, None, None,
                       <<Reply("sprints", GetAllSprints(m))>>)
        ELSE IF text = "export"
        THEN Turn(text, "done", None, None, None,
                  <<Reply("export", ExportState(m))>>)
        ELSE Turn(text, "done", None, None, None, <<Reply("unknown", None)>>)

\* The turn of a message, run up to its first await that waits for another
\* service, or to its end.  m is this.sprints, current is
\* state.conversation.currentSprint.
Dispatch(activityText, m, current, configured) ==
    LET text == CommandText(activityText)
        own == IF current \in {Undefined, ""} THEN DefaultSprint ELSE current
    IN  IF text = "help"
        THEN Turn(text, "done", None, None, None, <<Reply("help", None)>>)
        ELSE IF StartsWith(text, "sync")
        THEN IF ~configured
             THEN Turn(text, "done", None, None, None,
                       <<Reply("not configured", None)>>)
             ELSE Turn(text, "fetch", RestOf(text, DefaultSprint), None, None,
                       <<Reply("syncing", RestOf(text, DefaultSprint))>>)
        ELSE IF text = "classify"
        THEN IF Len(GetWorkItems(m, own)) = 0
             THEN Turn(text, "done", own, GetWorkItems(m, own), None,
                       <<Reply("nothing to classify", None)>>)
             ELSE Turn(text, "classify", own, GetWorkItems(m, own), None,
                       <<Reply("classifying", Len(GetWorkItems(m, own)))>>)
        ELSE IF StartsWith(text, "stats")
        THEN LET sprintName == RestOf(text, own)
                 stats == GetSprintStats(m, sprintName)
             IN  IF stats = Null
                 THEN Turn(text, "done", sprintName, None, None,
                           <<Reply("no data", sprintName)>>)
                 ELSE Turn(text, "done", sprintName, None, None,
                           <<Reply("statistics", stats)>>)
        ELSE IF text = "sprints"
        THEN IF Len(GetAllSprints(m)) = 0
             THEN Turn(text, "done", None, None, None, <<Reply("no sprints", None)>>)
             ELSE Turn(text, "done", None, None, None,
                       <<Reply("sprints", GetAllSprints(m))>>)
        ELSE IF text = "export"
        THEN Turn(text, "done", None, None, None,
                  <<Reply("export", ExportState(m))>>)
        ELSE Turn(text, "done", None, None, None, <<Reply("unknown", None)>>)

\* The messages the user types.
Messages ==
    {"help", "sync", " Sync Sprint 1 ", "classify", "stats", "Stats sprint 1",
     "sprints", "export", "hello"}

\* What the backend returns for a sprint: nothing, one work item, or two,
\* the first in a later version.
Backlogs ==
    {<<>>,
     <<WorkItem(1, "Fix production down issue", Bug, "New", "")>>,
     <<Carrying(WorkItem(1, "urgent cosmetic build", Bug, "Active", Undefined), 1),
       WorkItem(2, "Add nice to have UI enhancement", Feature, "New", Undefined)>>}

\* The environments the agent is started in: everything set, only Azure
\* DevOps, the Copilot Studio endpoint without its key, no Azure DevOps.
Envs ==
    {Env(TRUE, TRUE, TRUE, TRUE), Env(TRUE, FALSE, FALSE, FALSE),
     Env(TRUE, TRUE, TRUE, FALSE), Env(FALSE, TRUE, TRUE, TRUE)}

\* Whether an axios.post of a notification service went through.
PostOutcomes == {"posted", "failed"}

InitAgent ==
    /\ NewStore
    /\ NoCaller
    /\ env \in Envs
    /\ conversation = [count |-> 0, currentSprint |-> Undefined]
    /\ turns = <<>>

Idle == \A t \in 1..Len(turns) : turns[t].pc = "done"

Send(t, pc, replies) ==
    [turns EXCEPT ![t].pc = pc, ![t].replies = @ \o replies]

\* TeamsNotificationService.sendBatchSummary: the line it logs.  It returns
\* normally in every case.
SendBatchSummary(webhookUrl, outcome) ==
    IF ~webhookUrl THEN "Teams webhook URL not configured, skipping notification"
    ELSE IF outcome = "posted" THEN "Sent Teams batch summary"
    ELSE "Error sending Teams batch summary"

\* CopilotStudioNotificationService.notifyBatchProcessing: the line it logs.
\* It returns normally in every case.
NotifyBatchProcessing(endpoint, apiKey, outcome) ==
    IF ~endpoint \/ ~apiKey
    THEN "Copilot Studio endpoint not configured, skipping notification"
    ELSE IF outcome = "posted" THEN "Notified Copilot Studio about batch"
    ELSE "Error notifying Copilot Studio about batch"

\* The turns that have not returned.
Running == SelectSeq(turns, LAMBDA turn : turn.pc # "done")

\* A message arrives while no turn is running: the handler counts it and
\* runs to its first await on another service.  The turns that returned
\* are forgotten.
message(activityText) ==
    /\ conversation.count < MaxTurns
    /\ Idle
    /\ conversation' = [conversation EXCEPT !.count = @ + 1]
    /\ turns' = Append(Running, Dispatch(activityText, sprints,
                                         conversation.currentSprint,
                                         env.AZURE_DEVOPS_PAT))
    /\ UNCHANGED <<storeVars, input, output, env>>

\* A plausible slip: a sync that fetched nothing does not become the
\* conversation's current sprint.
fetchReturnsKeepingCurrent(t, workItems) ==
    /\ turns[t].pc = "fetch"
    /\ now' = now + 1
    /\ sprints' = UpdateWorkItems(sprints, turns[t].sprintName, workItems, now')
    /\ conversation' = IF workItems = <<>> THEN conversation
                       ELSE [conversation EXCEPT
                                 !.currentSprint = turns[t].sprintName]
    /\ turns' = [Send(t, "classify",
                      <<Reply("synced", <<Len(workItems), turns[t].sprintName>>),
                        Reply("classifying", None)>>)
                     EXCEPT ![t].workItems = workItems]
    /\ UNCHANGED <<steps, last, written, input, output, env>>

\* azureDevOpsService.getWorkItems resolves: the work items are stored, the
\* sprint becomes the conversation's current sprint.
fetchReturns(t, workItems) ==
    /\ turns[t].pc = "fetch"
    /\ now' = now + 1
    /\ sprints' = UpdateWorkItems(sprints, turns[t].sprintName, workItems, now')
    /\ conversation' = [conversation EXCEPT !.currentSprint = turns[t].sprintName]
    /\ turns' = [Send(t, "classify",
                      <<Reply("synced", <<Len(workItems), turns[t].sprintName>>),
                        Reply("classifying", None)>>)
                     EXCEPT ![t].workItems = workItems]
    /\ UNCHANGED <<steps, last, written, input, output, env>>

\* A plausible slip: the sprint becomes the conversation's current sprint
\* before the fetch is awaited.
fetchFailsAfterSwitching(t) ==
    /\ turns[t].pc = "fetch"
    /\ now' = now + 1
    /\ conversation' = [conversation EXCEPT !.currentSprint = turns[t].sprintName]
    /\ turns' = Send(t, "done", <<Reply("error syncing", None)>>)
    /\ UNCHANGED <<sprints, steps, last, written, input, output, env>>

\* azureDevOpsService.getWorkItems rejects: the inner catch reports it.
fetchFails(t) ==
    /\ turns[t].pc = "fetch"
    /\ now' = now + 1
    /\ turns' = Send(t, "done", <<Reply("error syncing", None)>>)
    /\ UNCHANGED <<sprints, steps, last, written, input, output, env, conversation>>

\* A plausible slip: the results are stored under the default sprint.
classifiedUnderDefault(t) ==
    /\ turns[t].pc = "classify"
    /\ LET classifications == ClassifyWorkItems(turns[t].workItems)
           sync == StartsWith(turns[t].text, "sync")
       IN  /\ sprints' = StoreClassifications(sprints, DefaultSprint,
                                              classifications, now)
           /\ turns' = [Send(t, IF sync THEN "teams" ELSE "done",
                             <<Reply(IF sync THEN "classified"
                                     ELSE "classification complete",
                                     Len(classifications))>>)
                            EXCEPT ![t].classifications = classifications]
    /\ UNCHANGED <<now, steps, last, written, input, output, env, conversation>>

\* classifyWorkItems resolves, in a sync or a classify command: the results
\* are stored.
classified(t) ==
    /\ turns[t].pc = "classify"
    /\ LET classifications == ClassifyWorkItems(turns[t].workItems)
           sync == StartsWith(turns[t].text, "sync")
       IN  /\ sprints' = StoreClassifications(sprints, turns[t].sprintName,
                                              classifications, now)
           /\ turns' = [Send(t, IF sync THEN "teams" ELSE "done",
                             <<Reply(IF sync THEN "classified"
                                     ELSE "classification complete",
                                     Len(classifications))>>)
                            EXCEPT ![t].classifications = classifications]
    /\ UNCHANGED <<now, steps, last, written, input, output, env, conversation>>

\* A plausible slip: sendBatchSummary lets the error of axios.post through,
\* to the catch of the sync command.
notifyTeamsThrowing(t, outcome) ==
    /\ turns[t].pc = "teams"
    /\ turns' = IF ~env.TEAMS_WEBHOOK_URL
                THEN Send(t, "copilot", <<>>)
                ELSE IF outcome = "failed"
                THEN [Send(t, "done", <<Reply("error syncing", None)>>)
                          EXCEPT ![t].log =
                              Append(@, SendBatchSummary(env.TEAMS_WEBHOOK_URL,
                                                         outcome))]
                ELSE [Send(t, "copilot", <<Reply("sent to Teams", None)>>)
                          EXCEPT ![t].log =
                              Append(@, SendBatchSummary(env.TEAMS_WEBHOOK_URL,
                                                         outcome))]
    /\ UNCHANGED <<storeVars, input, output, env, conversation>>

\* The Teams notification: skipped when TEAMS_WEBHOOK_URL is not set;
\* sendBatchSummary catches the error of a failed post.
notifyTeams(t, outcome) ==
    /\ turns[t].pc = "teams"
    /\ turns' = IF env.TEAMS_WEBHOOK_URL
                THEN [Send(t, "copilot", <<Reply("sent to Teams", None)>>)
                          EXCEPT ![t].log =
                              Append(@, SendBatchSummary(env.TEAMS_WEBHOOK_URL,
                                                         outcome))]
                ELSE Send(t, "copilot", <<>>)
    /\ UNCHANGED <<storeVars, input, output, env, conversation>>

\* The Copilot Studio notification: skipped when COPILOT_STUDIO_ENDPOINT is
\* not set; notifyBatchProcessing returns at once without its key and
\* catches the error of a failed post.
notifyCopilotStudio(t, outcome) ==
    /\ turns[t].pc = "copilot"
    /\ turns' = IF env.COPILOT_STUDIO_ENDPOINT
                THEN [Send(t, "stats", <<Reply("notified Copilot Studio", None)>>)
                          EXCEPT ![t].log =
                              Append(@, NotifyBatchProcessing(
                                            env.COPILOT_STUDIO_ENDPOINT,
                                            env.COPILOT_STUDIO_API_KEY, outcome))]
                ELSE Send(t, "stats", <<>>)
    /\ UNCHANGED <<storeVars, input, output, env, conversation>>

\* The quick stats at the end of a sync.
quickStats(t) ==
    /\ turns[t].pc = "stats"
    /\ turns' = Send(t, "done", QuickStats(sprints, turns[t].sprintName))
    /\ UNCHANGED <<storeVars, input, output, env, conversation>>

NextAgent ==
    \/ \E activityText \in Messages : message(activityText)
    \/ \E t \in 1..Len(turns), workItems \in Backlogs : fetchReturns(t, workItems)
    \/ \E t \in 1..Len(turns) : fetchFails(t)
    \/ \E t \in 1..Len(turns) : classified(t)
    \/ \E t \in 1..Len(turns), outcome \in PostOutcomes : notifyTeams(t, outcome)
    \/ \E t \in 1..Len(turns), outcome \in PostOutcomes :
           notifyCopilotStudio(t, outcome)
    \/ \E t \in 1..Len(turns) : quickStats(t)

SpecAgent == InitAgent /\ [][NextAgent]_vars

\* The messages of overlapping turns: each command once, with one sprint to
\* sync.
TurnMessages ==
    {"help", "sync sprint 1", "classify", "stats", "sprints", "export"}

\* Overlapping turns run with Azure DevOps configured and the notification
\* services not.
InitTurns ==
    /\ NewStore
    /\ NoCaller
    /\ env = Env(TRUE, FALSE, FALSE, FALSE)
    /\ conversation = [count |-> 0, currentSprint |-> Undefined]
    /\ turns = <<>>

\* A message arrives while other turns wait at an await: the handler counts
\* it and runs to its first await on another service.  The turns share the
\* services and the conversation state.
arrives(activityText) ==
    /\ conversation.count < MaxTurns
    /\ conversation' = [conversation EXCEPT !.count = @ + 1]
    /\ turns' = Append(Running, Dispatch(activityText, sprints,
                                         conversation.currentSprint,
                                         env.AZURE_DEVOPS_PAT))
    /\ UNCHANGED <<storeVars, input, output, env>>

\* The turns interleave at their awaits: each step runs one turn from one
\* await to the next.
NextTurns ==
    \/ \E activityText \in TurnMessages : arrives(activityText)
    \/ \E t \in 1..Len(turns), workItems \in Backlogs : fetchReturns(t, workItems)
    \/ \E t \in 1..Len(turns) : fetchFails(t)
    \/ \E t \in 1..Len(turns) : classified(t)
    \/ \E t \in 1..Len(turns), outcome \in PostOutcomes : notifyTeams(t, outcome)
    \/ \E t \in 1..Len(turns), outcome \in PostOutcomes :
           notifyCopilotStudio(t, outcome)
    \/ \E t \in 1..Len(turns) : quickStats(t)

SpecTurns == InitTurns /\ [][NextTurns]_vars

-----------------------------------------------------------------------------
(* Properties *)

LookupOps == {"getWorkItems", "getClassifications", "getAllSprints",
              "getSprintStats", "exportState"}

WriteOps == {"getOrCreateSprintState", "updateWorkItems", "storeClassifications"}

\* No key occurs twice in a Map.
DistinctKeys(m) == \A i, j \in 1..Len(m) : m[i].k = m[j].k => i = j

\* What a caller can see of a store through getAllSprints, getWorkItems,
\* getClassifications and getSprintStats.
Observed(m) ==
    [allSprints |-> GetAllSprints(m),
     workItems |-> [name \in SprintNames |-> GetWorkItems(m, name)],
     classifications |-> [name \in SprintNames |-> GetClassifications(m, name)],
     stats |-> [name \in SprintNames |-> GetSprintStats(m, name)]]

\* C1: round-trip law.  In every state the three write calls can reach,
\* importState of the text exportState returns, into a fresh store, does not
\* throw and gives a store with the same getAllSprints (names and order) and,
\* for every sprint, the same getWorkItems, getClassifications and
\* getSprintStats (lastSyncTime and priority breakdown included).
C1_RoundTrip ==
    LET fresh == ImportState(<<>>, ExportState(sprints))
    IN  /\ ~fresh.threw
        /\ Observed(fresh.sprints) = Observed(sprints)

\* The store holds two sprints, a work item without a
\* description, a classification, and sync times on both sides of a full
\* second.
C1_Witness ==
    /\ Len(sprints) = 2
    /\ \E i \in 1..2 : \E w \in SeqToSet(MapValues(sprints[i].v.workItems)) :
           w.description = Undefined
    /\ \E i \in 1..2 : sprints[i].v.classifications # <<>>
    /\ \E i \in 1..2 : sprints[i].v.lastSyncTime % MsPerSecond # 0
    /\ \E i \in 1..2 : sprints[i].v.lastSyncTime % MsPerSecond = 0

\* The elements of the sprints list of a snapshot.
SnapshotSprints(json) == SeqToSet(Prop(json, "sprints").a)

\* C2: a successful importState replaces the whole store.  Afterwards the
\* known sprints are exactly the sprints named in the snapshot, and every
\* work item and classification in the store comes from the snapshot's entry
\* for its sprint: nothing of the store the call found is left or merged in.
C2_ImportReplaces ==
    (last.op = "importState" /\ ~last.threw) =>
        /\ MapKeySet(sprints) =
               {StrOf(Prop(e, "name")) : e \in SnapshotSprints(last.json)}
        /\ DistinctKeys(sprints)
        /\ \A i \in 1..Len(sprints) :
               \E e \in SnapshotSprints(last.json) :
                   /\ StrOf(Prop(e, "name")) = sprints[i].k
                   /\ sprints[i].v.lastSyncTime = NewDate(Prop(e, "lastSyncTime"))
                   /\ MapValues(sprints[i].v.workItems) =
                          MapValues(NewMap(Prop(e, "workItems"), "workItems"))
                   /\ MapValues(sprints[i].v.classifications) =
                          MapValues(NewMap(Prop(e, "classifications"),
                                           "classifications"))

\* importState succeeded on a store that held, under a name the snapshot has
\* too, two work items the snapshot does not have.
C2_Witness ==
    /\ last.op = "importState"
    /\ ~last.threw
    /\ last.json = ExportState(SavedStore)
    /\ steps = 2
    /\ written["S1"].workItems = {WorkItemA(1), WorkItemA(2)}
    /\ GetAllSprints(sprints) = <<"S1">>
    /\ GetWorkItems(sprints, "S1") = <<WorkItemB(1)>>
    /\ GetClassifications(sprints, "S1") = <<Result(1, Medium)>>

\* C3: importState of a malformed snapshot always throws.
C3_MalformedAlwaysThrows ==
    (last.op = "importState" /\ ~WellFormed(last.json)) => last.threw

\* The ids of the elements of a set of work items or results.
IdsOf(S) == {KeyOf(e) : e \in S}

\* C4: updateWorkItems is last-write-wins keyed by id.  For every sprint,
\* getWorkItems holds exactly the latest work item handed in for each id
\* ever handed in, whole, once, so its length is the number of distinct ids.
C4_LastWriteWins ==
    \A name \in SprintNames :
        LET items == GetWorkItems(sprints, name)
        IN  /\ SeqToSet(items) = written[name].workItems
            /\ Len(items) = Cardinality(IdsOf(written[name].workItems))
            /\ \A i, j \in 1..Len(items) : items[i].id = items[j].id => i = j

\* A second call replaced a work item: the ids were first stored in the
\* order 2, 1, and the copy stored for id 1 is the one handed in last.
C4_Witness ==
    /\ last.op = "updateWorkItems"
    /\ last.sprintName = "S1"
    /\ last.wrote = "replaced"
    /\ steps = 2
    /\ written["S1"].workItems = {WorkItemA(1), WorkItemA(2)}
    /\ GetWorkItems(sprints, "S1") = <<WorkItemA(2), WorkItemA(1)>>
    /\ sprints[1].v.lastSyncTime > StartTime

\* C5: lookups never create or change state.  A call of getWorkItems,
\* getClassifications, getAllSprints, getSprintStats or exportState does not
\* throw and leaves the store as it was; for a sprint name that is not known
\* getSprintStats returns null and getWorkItems and getClassifications
\* return an empty array.
C5_LookupsChangeNothing ==
    [][last'.op \in LookupOps =>
           /\ sprints' = sprints
           /\ ~last'.threw
           /\ (last'.op \in {"getWorkItems", "getClassifications"}
                   /\ ~MapHas(sprints, last'.sprintName)) => last'.ret = <<>>
           /\ (last'.op = "getSprintStats" /\ ~MapHas(sprints, last'.sprintName))
                  => last'.ret = Null]_vars

\* getSprintStats returned null for an unknown name in a store that knows
\* another sprint, and the store still does not know the name.
C5_Witness ==
    /\ last.op = "getSprintStats"
    /\ last.ret = Null
    /\ Len(sprints) = 1
    /\ ~MapHas(sprints, last.sprintName)

\* C6: storeClassifications on an existing sprint leaves the sprint's
\* lastSyncTime and its work items as they were.
C6_StoreKeepsSyncTime ==
    [][(last'.op = "storeClassifications" /\ MapHas(sprints, last'.sprintName)) =>
           /\ MapGet(sprints', last'.sprintName).lastSyncTime =
                  MapGet(sprints, last'.sprintName).lastSyncTime
           /\ MapGet(sprints', last'.sprintName).workItems =
                  MapGet(sprints, last'.sprintName).workItems]_vars

\* Classifications were stored, later than the last sync, for a sprint that
\* holds work items.
C6_Witness ==
    /\ last.op = "storeClassifications"
    /\ last.wrote = "added"
    /\ MapHas(sprints, last.sprintName)
    /\ MapGet(sprints, last.sprintName).workItems # <<>>
    /\ MapGet(sprints, last.sprintName).classifications # <<>>
    /\ MapGet(sprints, last.sprintName).lastSyncTime < now

\* C7: every updateWorkItems call leaves the sprint registered with
\* lastSyncTime the time of the call, also for an empty list; an empty list
\* for an unknown sprint creates the sprint with empty mappings, an empty
\* list for a known sprint changes no work item.
C7_UpdateSetsSyncTime ==
    [][last'.op = "updateWorkItems" =>
           /\ MapHas(sprints', last'.sprintName)
           /\ MapGet(sprints', last'.sprintName).lastSyncTime = now'
           /\ (last'.wrote = "nothing" /\ ~MapHas(sprints, last'.sprintName)) =>
                  /\ MapGet(sprints', last'.sprintName).workItems = <<>>
                  /\ MapGet(sprints', last'.sprintName).classifications = <<>>
           /\ (last'.wrote = "nothing" /\ MapHas(sprints, last'.sprintName)) =>
                  MapGet(sprints', last'.sprintName).workItems =
                      MapGet(sprints, last'.sprintName).workItems]_vars

\* updateWorkItems was called with an empty list, after the clock moved, for
\* a sprint that already held work items.
C7_Witness ==
    /\ last.op = "updateWorkItems"
    /\ last.wrote = "nothing"
    /\ MapGet(sprints, last.sprintName).workItems # <<>>
    /\ MapGet(sprints, last.sprintName).lastSyncTime = StartTime + 1
    /\ now = StartTime + 1

\* C8: storeClassifications is insert/overwrite keyed by workItemId and
\* creates the sprint.  For every sprint, getClassifications holds exactly
\* the latest result handed in for each workItemId, once; a sprint that was
\* handed results is registered, and while no work item was handed in for it
\* it has zero work items.
C8_StoreClassifications ==
    \A name \in SprintNames :
        LET results == GetClassifications(sprints, name)
        IN  /\ SeqToSet(results) = written[name].classifications
            /\ \A i, j \in 1..Len(results) :
                   results[i].workItemId = results[j].workItemId => i = j
            /\ written[name].classifications # {} => name \in SeqToSet(GetAllSprints(sprints))
            /\ written[name].workItems = {} => GetWorkItems(sprints, name) = <<>>
            /\ (last.op = "storeClassifications" /\ last.sprintName = name) =>
                   ~last.threw /\ MapHas(sprints, name)

\* Two results for the same id were stored in one call for a sprint that was
\* never synced: the sprint is known, keeps the later result and has no work
\* items.
C8_Witness ==
    /\ last.op = "storeClassifications"
    /\ last.sprintName = "S2"
    /\ last.wrote = "replaced"
    /\ steps = 1
    /\ GetAllSprints(sprints) = <<"S2">>
    /\ GetClassifications(sprints, "S2") = <<Result(1, Medium)>>
    /\ GetWorkItems(sprints, "S2") = <<>>

StoredWithPriority(state, p) ==
    {c \in SeqToSet(MapValues(state.classifications)) : c.suggestedPriority = p}

\* C10: for every known sprint getSprintStats reports the number of distinct
\* stored work-item ids, the number of distinct stored classification ids,
\* and per priority the number of stored classifications with it; the four
\* counts sum to totalClassifications.
C10_Stats ==
    \A i \in 1..Len(sprints) :
        LET state == sprints[i].v
            stats == GetSprintStats(sprints, sprints[i].k)
        IN  /\ stats # Null
            /\ stats.totalWorkItems = Cardinality(MapKeySet(state.workItems))
            /\ stats.totalClassifications = Cardinality(MapKeySet(state.classifications))
            /\ stats.priorityBreakdown.critical =
                   Cardinality(StoredWithPriority(state, Critical))
            /\ stats.priorityBreakdown.high =
                   Cardinality(StoredWithPriority(state, High))
            /\ stats.priorityBreakdown.medium =
                   Cardinality(StoredWithPriority(state, Medium))
            /\ stats.priorityBreakdown.low =
                   Cardinality(StoredWithPriority(state, Low))
            /\ stats.priorityBreakdown.critical + stats.priorityBreakdown.high
                   + stats.priorityBreakdown.medium + stats.priorityBreakdown.low
                   = stats.totalClassifications
            /\ (last.op = "getSprintStats" /\ last.sprintName = sprints[i].k) =>
                   last.ret = stats

\* getSprintStats was called for a sprint that holds two classifications, of
\* priority Critical and Low.
C10_Witness ==
    /\ last.op = "getSprintStats"
    /\ last.ret # Null
    /\ last.ret.totalWorkItems = 0
    /\ last.ret.totalClassifications = 2
    /\ last.ret.priorityBreakdown.critical = 1
    /\ last.ret.priorityBreakdown.low = 1

\* C11: getOrCreateSprintState is an idempotent lookup.  A call for a name
\* not yet known appends one entry, with no work items, no classifications
\* and the time of the call as lastSyncTime, and returns it; a call for a
\* known name leaves the store as it is, returns the state stored under the
\* name, and the name stays listed once.
C11_GetOrCreateIdempotent ==
    [][last'.op = "getOrCreateSprintState" =>
           LET name == last'.sprintName
               fresh == SprintState(name, <<>>, now, <<>>)
           IN  /\ IF MapHas(sprints, name)
                  THEN /\ sprints' = sprints
                       /\ last'.ret = MapGet(sprints, name)
                  ELSE /\ sprints' = Append(sprints, [k |-> name, v |-> fresh])
                       /\ last'.ret = fresh
               /\ Cardinality({i \in 1..Len(sprints') : sprints'[i].k = name}) = 1]_vars

\* getOrCreateSprintState was called, a millisecond after the sync that
\* created it, for a sprint that holds work items: it returned them, with
\* the lastSyncTime of the sync.
C11_Witness ==
    /\ last.op = "getOrCreateSprintState"
    /\ now = StartTime + 1
    /\ last.ret.lastSyncTime = StartTime
    /\ last.ret.workItems # <<>>
    /\ Len(sprints) = 1

\* The work items the classifier was called on, each with the result it got.
Classified ==
    IF output = None THEN {}
    ELSE IF input.op = "classifyWorkItem"
    THEN {[workItem |-> input.arg, result |-> output.value]}
    ELSE {[workItem |-> input.arg[i], result |-> output.value[i]] :
              i \in 1..Min(Len(input.arg), Len(output.value))}

Has(suggestedTags, tag) == \E i \in 1..Len(suggestedTags) : suggestedTags[i] = tag

\* The tier the ordered keyword lists give for text: the tier of the first
\* list, in the order Critical, High, Low, that has a keyword in text.
KeywordTier(text) ==
    IF IncludesAny(text, {"critical", "production down", "security", "data loss"})
    THEN Critical
    ELSE IF IncludesAny(text, {"urgent", "important", "customer impact",
                               "high priority"})
    THEN High
    ELSE IF IncludesAny(text, {"nice to have", "low priority", "enhancement",
                               "cosmetic"})
    THEN Low
    ELSE Medium

\* C12 as stated: suggestedPriority is the tier of the first keyword list
\* that matches the text (Critical, then High, then Low, else Medium),
\* whatever the work item's type, and a Critical result carries the tag
\* "Critical".
C12_TiersByKeywordsAlone ==
    \A c \in Classified :
        /\ c.result.suggestedPriority = KeywordTier(TextOf(c.workItem))
        /\ c.result.suggestedPriority = Critical =>
               Has(c.result.suggestedTags, "Critical")

\* C12, amended: suggestedPriority is Critical when the text has a Critical
\* keyword or the work item is a Bug whose text contains "blocker"; otherwise
\* it is the tier of the first keyword list that matches (High, then Low,
\* else Medium); a Critical result carries the tag "Critical".
C12_Tiers ==
    \A c \in Classified :
        LET text == TextOf(c.workItem)
        IN  /\ c.result.suggestedPriority =
                   IF c.workItem.type = Bug /\ Includes(text, "blocker")
                   THEN Critical
                   ELSE KeywordTier(text)
            /\ c.result.suggestedPriority = Critical =>
                   Has(c.result.suggestedTags, "Critical")

\* A Bug titled "blocker urgent", with no Critical keyword and a High one,
\* was classified Critical and tagged "Critical".
C12_Witness ==
    /\ output # None
    /\ input.op = "classifyWorkItem"
    /\ input.arg.title = "blocker urgent"
    /\ input.arg.type = Bug
    /\ input.arg.description = Undefined
    /\ output.value.suggestedPriority = Critical
    /\ Has(output.value.suggestedTags, "Critical")

\* C13: a Bug whose text contains "blocker" and no Critical keyword is
\* classified Critical, also when the text has High or Low keywords.
C13_BugBlockerIsCritical ==
    \A c \in Classified :
        LET text == TextOf(c.workItem)
        IN  (/\ c.workItem.type = Bug
             /\ Includes(text, "blocker")
             /\ KeywordTier(text) # Critical) =>
                c.result.suggestedPriority = Critical

\* A Bug titled "Blocker cosmetic", with a High keyword in its description
\* and no Critical keyword, was classified Critical.
C13_Witness ==
    /\ output # None
    /\ input.op = "classifyWorkItem"
    /\ input.arg.type = Bug
    /\ input.arg.title = "Blocker cosmetic"
    /\ input.arg.description = "Important blocker"
    /\ output.value.suggestedPriority = Critical

\* C14: a work item whose text contains "blocker" is classified Critical,
\* whatever its type.
C14_BlockerIsCritical ==
    \A c \in Classified :
        Includes(TextOf(c.workItem), "blocker") =>
            c.result.suggestedPriority = Critical

\* C15: the priority tags agree with the priority.  "Critical" is a tag
\* exactly of the Critical results, "HighPriority" exactly of the High
\* results, so the two never occur together and a Low or Medium result has
\* neither.
C15_PriorityTags ==
    \A c \in Classified :
        /\ Has(c.result.suggestedTags, "Critical") <=>
               c.result.suggestedPriority = Critical
        /\ Has(c.result.suggestedTags, "HighPriority") <=>
               c.result.suggestedPriority = High
        /\ ~(Has(c.result.suggestedTags, "Critical")
                 /\ Has(c.result.suggestedTags, "HighPriority"))
        /\ c.result.suggestedPriority \in {Low, Medium} =>
               /\ ~Has(c.result.suggestedTags, "Critical")
               /\ ~Has(c.result.suggestedTags, "HighPriority")

\* A Task whose text has High and Low keywords and "blocker" was classified:
\* it is tagged "HighPriority" and not "Critical".
C15_Witness ==
    /\ output # None
    /\ input.op = "classifyWorkItem"
    /\ input.arg.title = "urgent cosmetic build"
    /\ input.arg.description = "Important blocker"
    /\ input.arg.type = Task
    /\ Has(output.value.suggestedTags, "HighPriority")
    /\ ~Has(output.value.suggestedTags, "Critical")

\* The tags of a result other than the two priority tags.
OtherTags(suggestedTags) ==
    SelectSeq(suggestedTags, LAMBDA tag : tag \notin {"Critical", "HighPriority"})

\* C16: confidence is min(0.95, 0.6 + 0.1 * number of tags), here in
\* hundredths: between 0.6 and 0.95, 0.9 with three tags, 0.95 from four
\* tags on.  A Low or Medium result counts the other tags only; a Critical
\* or High result counts its priority tag as well.
C16_Confidence ==
    \A c \in Classified :
        LET n == Len(c.result.suggestedTags)
            others == Len(OtherTags(c.result.suggestedTags))
            confidence == c.result.confidence
        IN  /\ confidence = (IF 60 + 10 * n < 95 THEN 60 + 10 * n ELSE 95)
            /\ confidence >= 60
            /\ confidence <= 95
            /\ n = 3 => confidence = 90
            /\ n >= 4 => confidence = 95
            /\ c.result.suggestedPriority \in {Low, Medium} =>
                   /\ n = others
                   /\ others < 4 => confidence = 60 + 10 * others
            /\ c.result.suggestedPriority \in {Critical, High} =>
                   /\ n = others + 1
                   /\ others < 3 => confidence = 60 + 10 * (others + 1)

\* "Fix production down issue", a new Bug with an empty description, got the
\* three tags Critical, Bug and NeedsReview and the confidence 0.9.
C16_Witness ==
    /\ output # None
    /\ input.op = "classifyWorkItem"
    /\ input.arg.title = "Fix production down issue"
    /\ input.arg.description = ""
    /\ output.value.suggestedTags = <<"Critical", "Bug", "NeedsReview">>
    /\ output.value.confidence = 90

\* C17: classifyWorkItems returns one result per work item, in the order of
\* the work items: the i-th result has the id of the i-th work item and is
\* what classifyWorkItem gives for that work item alone.
C17_BatchInOrder ==
    (output # None /\ input.op = "classifyWorkItems") =>
        /\ Len(output.value) = Len(input.arg)
        /\ \A i \in 1..Len(input.arg) :
               /\ output.value[i].workItemId = input.arg[i].id
               /\ output.value[i] = ClassifyWorkItem(input.arg[i])

\* A batch of two work items with different ids and different priorities
\* was classified.
C17_Witness ==
    /\ output # None
    /\ input.op = "classifyWorkItems"
    /\ Len(input.arg) = 2
    /\ input.arg[1].id = 2
    /\ input.arg[2].id = 1
    /\ output.value[1].suggestedPriority = Low
    /\ output.value[2].suggestedPriority = Critical

\* Work items that agree with workItem on title, type and state and have the
\* same description, or an absent one for an empty one and the reverse; they
\* differ in id, assignedTo, tags, priority, sprint or url.
Variants(workItem) ==
    LET descriptions == IF workItem.description \in {Undefined, ""}
                        THEN {Undefined, ""}
                        ELSE {workItem.description}
        plain == WorkItem(workItem.id, workItem.title, workItem.type,
                          workItem.state, workItem.description)
    IN  {[other EXCEPT !.description = description] :
             other \in {plain} \cup {Carrying(plain, id) : id \in {1, 2}},
             description \in descriptions}

\* What of a result is not the id of the work item.
Verdict(result) ==
    [suggestedTags |-> result.suggestedTags,
     suggestedPriority |-> result.suggestedPriority,
     confidence |-> result.confidence,
     reasoning |-> result.reasoning]

\* C18: classifyWorkItem gives every work item a result, a well-formed
\* ClassificationResult for its id, and the result's tags, priority,
\* confidence and reasoning depend on title, description, type and state
\* only: a work item that differs in the other fields, or has an absent
\* description for an empty one, gets the same.
C18_Deterministic ==
    \A c \in Classified :
        /\ DOMAIN c.result = {"workItemId", "suggestedTags", "suggestedPriority",
                              "confidence", "reasoning"}
        /\ c.result.workItemId = c.workItem.id
        /\ c.result.suggestedPriority \in Priority
        /\ c.result.reasoning # ""
        /\ \A other \in Variants(c.workItem) :
               Verdict(ClassifyWorkItem(other)) = Verdict(c.result)

\* A work item that carries an assignee, tags, a priority of its own, a
\* sprint and a url was classified Critical from its title.
C18_Witness ==
    /\ output # None
    /\ input.op = "classifyWorkItem"
    /\ "priority" \in DOMAIN input.arg
    /\ input.arg.priority = Low
    /\ input.arg.id = 2
    /\ output.value.workItemId = 2
    /\ output.value.suggestedPriority = Critical

\* The keywords of the seven technical-area tags.
AreaKeywords ==
    [UI |-> {"ui", "frontend", "interface"},
     Backend |-> {"backend", "api", "server"},
     Database |-> {"database", "sql", "data"},
     Performance |-> {"performance", "slow", "optimization"},
     Security |-> {"security", "authentication", "authorization"},
     Testing |-> {"test", "testing", "qa"},
     Documentation |-> {"documentation", "docs", "readme"}]

\* C20: each of the seven technical-area tags is in suggestedTags exactly
\* when the text contains one of its keywords as a substring, whatever the
\* priority tier and the other tags; a text with "data loss" is Critical and
\* tagged Database, a text with "security" is Critical and tagged Security.
C20_AreaTags ==
    \A c \in Classified :
        LET text == TextOf(c.workItem)
        IN  /\ \A tag \in DOMAIN AreaKeywords :
                   Has(c.result.suggestedTags, tag) <=>
                       IncludesAny(text, AreaKeywords[tag])
            /\ Includes(text, "data loss") =>
                   /\ c.result.suggestedPriority = Critical
                   /\ Has(c.result.suggestedTags, "Database")
            /\ Includes(text, "security") =>
                   /\ c.result.suggestedPriority = Critical
                   /\ Has(c.result.suggestedTags, "Security")

\* "SECURITY data loss" was classified Critical and tagged Database and
\* Security, and no other area.
C20_Witness ==
    /\ output # None
    /\ input.op = "classifyWorkItem"
    /\ input.arg.title = "SECURITY data loss"
    /\ input.arg.description = ""
    /\ input.arg.type = Task
    /\ input.arg.state = "Active"
    /\ output.value.suggestedTags = <<"Critical", "Database", "Security">>
    /\ output.value.suggestedPriority = Critical

\* The places of a sync command from the Teams notification to the quick
\* stats.
AfterClassified == <<"teams", "copilot", "stats", "done">>

PlaceOf(pc) == CHOOSE i \in 1..Len(AfterClassified) : AfterClassified[i] = pc

\* C19: the notifications of a sync command do not touch the store and do
\* not end the command.  A step of a turn that is at the Teams or Copilot
\* Studio notification, or at the quick stats, leaves the sprints, their
\* work items, classifications and sync times as they are, whether the post
\* went through, failed or was not made; the turn goes on to the next
\* place, and the step to the end sends the priority breakdown of the
\* sprint as the store has it.
C19_NotificationsKeepStore ==
    [][\A t \in 1..Len(turns) :
           turns[t].pc \in {"teams", "copilot", "stats"} =>
               /\ sprints' = sprints
               /\ Len(turns') = Len(turns)
               /\ turns'[t].pc = AfterClassified[PlaceOf(turns[t].pc) + 1]
               /\ turns'[t].pc = "done" =>
                      /\ GetSprintStats(sprints, turns[t].sprintName) # Null
                      /\ turns'[t].replies[Len(turns'[t].replies)] =
                             Reply("quick stats",
                                   GetSprintStats(sprints, turns[t].sprintName)
                                       .priorityBreakdown)]_vars

\* A sync of two work items returned after both posts failed: the store
\* holds the two work items and their classifications, and the last activity
\* is the quick stats.
C19_Witness ==
    /\ Len(turns) = 1
    /\ turns[1].pc = "done"
    /\ turns[1].log = <<"Error sending Teams batch summary",
                        "Error notifying Copilot Studio about batch">>
    /\ Len(turns[1].workItems) = 2
    /\ Len(GetWorkItems(sprints, turns[1].sprintName)) = 2
    /\ GetClassifications(sprints, turns[1].sprintName) =
           ClassifyWorkItems(turns[1].workItems)
    /\ turns[1].replies[Len(turns[1].replies)].kind = "quick stats"

\* The tags in the order the rules are evaluated; of the first two and of
\* the three type tags a result has at most one.
RuleOrder ==
    <<"Critical", "HighPriority", "UI", "Backend", "Database", "Performance",
      "Security", "Testing", "Documentation", "Bug", "Feature", "Epic",
      "NeedsReview">>

PlaceInRuleOrder(tag) == CHOOSE i \in 1..Len(RuleOrder) : RuleOrder[i] = tag

\* C21: suggestedTags is in rule-evaluation order.  Every tag is one of the
\* fixed list, the tags come in the order of the list, so none occurs
\* twice, and a result has at most one priority tag and one type tag.
C21_TagsInRuleOrder ==
    \A c \in Classified :
        LET tags == c.result.suggestedTags
        IN  /\ \A i \in 1..Len(tags) : \E k \in 1..Len(RuleOrder) : RuleOrder[k] = tags[i]
            /\ \A i, j \in 1..Len(tags) :
                   i < j => PlaceInRuleOrder(tags[i]) < PlaceInRuleOrder(tags[j])
            /\ Cardinality({"Critical", "HighPriority"} \cap SeqToSet(tags)) <= 1
            /\ Cardinality({"Bug", "Feature", "Epic"} \cap SeqToSet(tags)) <= 1

\* A new Bug whose text matches the Critical tier and five areas got its
\* eight tags in the order of the rules.
C21_Witness ==
    /\ output # None
    /\ input.op = "classifyWorkItem"
    /\ input.arg.title = "SECURITY data loss"
    /\ input.arg.description = "qa docs authentication interface"
    /\ output.value.suggestedTags =
           <<"Critical", "UI", "Database", "Security", "Testing",
             "Documentation", "Bug", "NeedsReview">>

\* C22: the type tag and the state tag.  "Bug", "Feature" and "Epic" are
\* tags exactly of the work items of that type, so a Task or a User Story
\* has none of the three; "NeedsReview" is a tag exactly when the state in
\* lower case is "new", so "Active" and "New Request" do not get it; the
\* priority tier and the technical areas do not matter.
C22_TypeAndStateTags ==
    \A c \in Classified :
        LET tags == c.result.suggestedTags
        IN  /\ \A type \in {"Bug", "Feature", "Epic"} :
                   Has(tags, type) <=> c.workItem.type = type
            /\ c.workItem.type \in {"Task", "User Story"} =>
                   \A type \in {"Bug", "Feature", "Epic"} : ~Has(tags, type)
            /\ Has(tags, "NeedsReview") <=>
                   c.workItem.state \in {"new", "New", "NEW", "nEw", "neW", "NEw",
                                         "nEW", "NeW"}

\* A Feature in state "New Request" whose text matches the High tier and an
\* area got its type tag and not "NeedsReview".
C22_Witness ==
    /\ output # None
    /\ input.op = "classifyWorkItem"
    /\ input.arg.title = "urgent cosmetic build"
    /\ input.arg.description = Undefined
    /\ input.arg.type = "Feature"
    /\ input.arg.state = "New Request"
    /\ output.value.suggestedTags = <<"HighPriority", "UI", "Feature">>

\* C23: reasoning is "Standard classification applied." exactly when no
\* rule emitted a fragment: the priority is Medium, no technical-area tag
\* was pushed and the state in lower case is not "new".  A type tag emits
\* no fragment, and a Low result has a reasoning of its own and no priority
\* tag.
C23_FallbackReasoning ==
    \A c \in Classified :
        LET tags == c.result.suggestedTags
        IN  /\ c.result.reasoning = "Standard classification applied." <=>
                   /\ c.result.suggestedPriority = Medium
                   /\ \A tag \in DOMAIN AreaKeywords : ~Has(tags, tag)
                   /\ ~Has(tags, "NeedsReview")
            /\ c.result.suggestedPriority = Low =>
                   /\ StartsWith(c.result.reasoning,
                                 "Low priority - non-critical enhancement.")
                   /\ ~Has(tags, "Critical")
                   /\ ~Has(tags, "HighPriority")

\* An active Bug titled "Refactor" got the tag "Bug" alone and the fallback
\* reasoning.
C23_Witness ==
    /\ output # None
    /\ input.op = "classifyWorkItem"
    /\ input.arg.title = "Refactor"
    /\ input.arg.state = "Active"
    /\ output.value.suggestedTags = <<"Bug">>
    /\ output.value.suggestedPriority = Medium
    /\ output.value.reasoning = "Standard classification applied."

\* The ids a sprint state holds work items and classifications for.
StoredIds(state) ==
    [workItems |-> MapKeySet(state.workItems),
     classifications |-> MapKeySet(state.classifications)]

C25_SprintsIsolated ==
    [][last'.op \in WriteOps =>
           \A i \in 1..Len(sprints) :
               sprints[i].k # last'.sprintName =>
                   /\ Len(sprints') >= i
                   /\ sprints'[i] = sprints[i]]_vars

\* S1 and S2 each hold their own work item of id 1, synced a millisecond
\* apart.
C25_Witness ==
    /\ last.op = "updateWorkItems"
    /\ last.sprintName = "S2"
    /\ GetWorkItems(sprints, "S1") = <<WorkItemA(1)>>
    /\ GetWorkItems(sprints, "S2") = <<WorkItemB(1)>>
    /\ MapGet(sprints, "S1").lastSyncTime = StartTime
    /\ MapGet(sprints, "S2").lastSyncTime = StartTime + 1

\* C26 as stated: an importState call that throws leaves the store as it
\* found it.
C26_ImportAllOrNothing ==
    [][(last'.op = "importState" /\ last'.threw) => sprints' = sprints]_vars

\* The elements of a snapshot's sprints list that precede the first one the
\* import throws on; none when there is no sprints list.
ReadBeforeThrow(json) ==
    IF json.t = "null" \/ Prop(json, "sprints").t # "arr"
    THEN {}
    ELSE LET elements == Prop(json, "sprints").a
         IN  {elements[j] : j \in {j \in 1..Len(elements) :
                  \A i \in 1..j : ~ImportSprintThrows(elements[i])}}

\* C26: an importState call that throws leaves the store as it found it
\* when the text is unparseable; when parseable text makes it throw, the
\* store it found is discarded and the store afterwards holds exactly the
\* sprints of the snapshot that precede the failing one.
C26_ImportFailure ==
    [][(last'.op = "importState" /\ last'.threw) =>
           IF last'.json = Unparseable
           THEN sprints' = sprints
           ELSE /\ MapKeySet(sprints') =
                       {StrOf(Prop(e, "name")) : e \in ReadBeforeThrow(last'.json)}
                /\ \A i \in 1..Len(sprints') :
                       \E e \in ReadBeforeThrow(last'.json) :
                           /\ StrOf(Prop(e, "name")) = sprints'[i].k
                           /\ sprints'[i].v.lastSyncTime =
                                  NewDate(Prop(e, "lastSyncTime"))
                           /\ MapValues(sprints'[i].v.workItems) =
                                  MapValues(NewMap(Prop(e, "workItems"), "workItems"))
                           /\ MapValues(sprints'[i].v.classifications) =
                                  MapValues(NewMap(Prop(e, "classifications"),
                                                   "classifications"))]_vars

\* importState threw on the second sprint of a snapshot, on a store that
\* held work items for S2: the snapshot's first sprint is all the store
\* holds afterwards.
C26_Witness ==
    /\ last.op = "importState"
    /\ last.threw
    /\ last.json = JObj([sprints |-> JArr(<<SavedSprint, JNull>>)])
    /\ steps = 2
    /\ written["S2"].workItems # {}
    /\ GetAllSprints(sprints) = <<"S1">>

\* importState threw on unparseable text, on a store that held work items
\* for S2, and they are still there.
C26_WitnessUnparseable ==
    /\ last.op = "importState"
    /\ last.threw
    /\ last.json = Unparseable
    /\ written["S2"].workItems # {}
    /\ SeqToSet(GetWorkItems(sprints, "S2")) = written["S2"].workItems

\* The work item and the classification a sprint stores under an id, None
\* when it stores none.
StoredWorkItem(name, id) ==
    IF \E w \in SeqToSet(GetWorkItems(sprints, name)) : w.id = id
    THEN CHOOSE w \in SeqToSet(GetWorkItems(sprints, name)) : w.id = id
    ELSE None

StoredClassification(name, id) ==
    IF \E c \in SeqToSet(GetClassifications(sprints, name)) : c.workItemId = id
    THEN CHOOSE c \in SeqToSet(GetClassifications(sprints, name)) : c.workItemId = id
    ELSE None

\* C27: with turns one at a time, when a sync command whose fetch succeeded
\* has returned, every fetched work item is stored under the synced sprint
\* and has a stored classification; when a sync or classify command has
\* returned, the classification stored for each id it processed is
\* classifyWorkItem of the work item stored under that id in that sprint.
C27_StoredPairs ==
    \A t \in 1..Len(turns) :
        (turns[t].pc = "done" /\ turns[t].workItems # None
             /\ (StartsWith(turns[t].text, "sync") \/ turns[t].workItems # <<>>)) =>
            /\ StartsWith(turns[t].text, "sync") =>
                   \A w \in SeqToSet(turns[t].workItems) :
                       /\ StoredWorkItem(turns[t].sprintName, w.id) = w
                       /\ StoredClassification(turns[t].sprintName, w.id) # None
            /\ \A w \in SeqToSet(turns[t].workItems) :
                   /\ StoredWorkItem(turns[t].sprintName, w.id) # None
                   /\ StoredClassification(turns[t].sprintName, w.id) =
                          ClassifyWorkItem(StoredWorkItem(turns[t].sprintName, w.id))

\* A sync of "sprint 1" fetched two work items and returned after its quick
\* stats; both are stored there with their classifications.
C27_Witness ==
    /\ Len(turns) = 1
    /\ turns[1].pc = "done"
    /\ turns[1].text = "sync sprint 1"
    /\ Len(turns[1].workItems) = 2
    /\ Len(GetClassifications(sprints, "sprint 1")) = 2
    /\ turns[1].replies[Len(turns[1].replies)].kind = "quick stats"

\* C30: a sync whose fetch fails changes nothing in the core.  The step in
\* which getWorkItems rejects leaves this.sprints (no sprint created, no
\* work item, classification or lastSyncTime written) and the conversation's
\* current sprint as they are, reports the error to the user, and the turn
\* returns, so that the next message is handled.
C30_FailedFetchChangesNothing ==
    [][\A t \in 1..Len(turns) :
           (Len(turns') = Len(turns) /\ turns[t].pc = "fetch"
                /\ turns'[t].workItems = None /\ turns'[t].pc = "done") =>
               /\ sprints' = sprints
               /\ conversation'.currentSprint = conversation.currentSprint
               /\ turns'[t].replies[Len(turns'[t].replies)].kind = "error syncing"
               /\ Idle']_vars

\* After a sync of "sprint 1" the user typed sync, and the fetch failed: the
\* store holds "sprint 1" alone and it is still the current sprint.
C30_Witness ==
    /\ conversation.count = 2
    /\ Len(turns) = 1
    /\ turns[1].pc = "done"
    /\ turns[1].text = "sync"
    /\ turns[1].sprintName = DefaultSprint
    /\ turns[1].replies[Len(turns[1].replies)].kind = "error syncing"
    /\ conversation.currentSprint = "sprint 1"
    /\ GetAllSprints(sprints) = <<"sprint 1">>
    /\ MapGet(sprints, "sprint 1").lastSyncTime = StartTime + 1
    /\ now = StartTime + 2

\* The ids a sprint of the map m stores work items and classifications for;
\* none for a sprint m does not know.
WorkItemIds(m, name) == {w.id : w \in SeqToSet(GetWorkItems(m, name))}

ClassificationIds(m, name) ==
    {c.workItemId : c \in SeqToSet(GetClassifications(m, name))}

\* C28: under the commands of the agent, in any order and any interleaving
\* of the turns at their awaits, every id a sprint stores a classification
\* for is an id it stores a work item for.  A sprint is only created by the
\* updateWorkItems of a sync whose fetch returned, a classification is only
\* stored in a sprint that exists under an id it stores a work item for,
\* and a classify command that finds no work items returns at once and
\* leaves the store as it is.
C28_ClassifiedIdsAreStored ==
    [][/\ \A name \in MapKeySet(sprints') :
              /\ ClassificationIds(sprints', name) \subseteq WorkItemIds(sprints', name)
              /\ (ClassificationIds(sprints', name) \ ClassificationIds(sprints, name))
                     \subseteq WorkItemIds(sprints, name)
              /\ ~MapHas(sprints, name) =>
                     \E t \in 1..Len(turns) :
                         /\ turns[t].pc = "fetch"
                         /\ turns[t].sprintName = name
                         /\ turns'[t].pc = "classify"
       /\ LET t == Len(turns')
          IN  (/\ conversation'.count # conversation.count
               /\ turns'[t].text = "classify"
               /\ turns'[t].workItems = <<>>) =>
                  /\ turns'[t].pc = "done"
                  /\ turns'[t].classifications = None
                  /\ sprints' = sprints]_vars

\* While a sync of "sprint 1" waited for the classifier, a classify command
\* found the sprint's work item and stored its classification; and a
\* classify command that found nothing returned with the store empty.
C28_Witness ==
    /\ Len(turns) = 2
    /\ turns[1].text = "sync sprint 1"
    /\ turns[1].pc = "classify"
    /\ turns[2].text = "classify"
    /\ turns[2].pc = "done"
    /\ turns[2].sprintName = "sprint 1"
    /\ ClassificationIds(sprints, "sprint 1") = {1}
    /\ WorkItemIds(sprints, "sprint 1") = {1}

\* C29: two sync turns for the same sprint that interleave at their awaits
\* leave no stale pairing.  Once both have returned, the classification the
\* sprint stores for an id is classifyWorkItem of the work item it stores
\* under that id.
C29_NoStalePairing ==
    (/\ conversation.count = 2
     /\ Len(turns) = 2
     /\ \A t \in 1..2 : /\ turns[t].pc = "done"
                        /\ StartsWith(turns[t].text, "sync")
                        /\ turns[t].workItems # None
     /\ turns[1].sprintName = turns[2].sprintName) =>
        \A id \in ClassificationIds(sprints, turns[1].sprintName) :
            StoredClassification(turns[1].sprintName, id) =
                ClassifyWorkItem(StoredWorkItem(turns[1].sprintName, id))

\* The sprint of the most recent sync whose fetch succeeded, as the store
\* shows it: the sprint synced last, "Current Sprint" when there is none.
LastSynced(m) ==
    IF m = <<>> THEN DefaultSprint
    ELSE LET i == CHOOSE i \in 1..Len(m) :
                      \A j \in 1..Len(m) : m[j].v.lastSyncTime <= m[i].v.lastSyncTime
         IN  m[i].k

====
